---- MODULE Spec2Model ----
(***************************************************************************)
(* A model of the takas (Swapzy) marketplace: the trade workflow of        *)
(* market/views.py with the rows it writes (Trade, Notification,           *)
(* LiveActivity, outgoing e-mail), and the cache-backed request screening  *)
(* of market/middleware/security.py and market/utils/security.py.          *)
(*                                                                         *)
(* HTTP requests are served by a pool of workers.  A handler is split      *)
(* into steps only where a database read that decides a later write is     *)
(* separated from that write: between the two steps of one request any     *)
(* step of another request may run.                                        *)
(***************************************************************************)
EXTENDS Integers, Sequences, FiniteSets, Bags, TLC

\* ------------------------------------------------------------------------
\* Bounds of the model
\* ------------------------------------------------------------------------
MaxTrades == 2
NumWorkers == 2
MaxTime == 7200

\* ------------------------------------------------------------------------
\* The fixed population: users and the items they own
\* ------------------------------------------------------------------------
Users == {"A", "B", "C"}

Items == {"I1", "I2"}

\* Item.owner
ItemOwner == [i \in Items |-> IF i = "I1" THEN "A" ELSE "B"]

\* User.email is blank by default (signup uses UserCreationForm, which has
\* no e-mail field); A and C have filled it in, B has not.
HasEmail == [u \in Users |-> u # "B"]

\* a primary key that matches no item (get_object_or_404 fails)
NoItem == "I0"

\* the listings trade_create is requested for: B's item, and a stale link
RequestedInputs == {"I2", NoItem}

\* TradeStatus
PENDING == "pending"
ACCEPTED == "accepted"
REJECTED == "rejected"
CANCELLED == "cancelled"
TradeStatus == {PENDING, ACCEPTED, REJECTED, CANCELLED}

\* the action segment of the URL trade/<pk>/<action>/
TradeActions == {"accept", "reject", "cancel", "reopen"}

VARIABLES
    trades,         \* Trade rows, pk = index
    notifications,  \* Notification rows (as a set: ids and creation order left out)
    activities,     \* LiveActivity rows (as a set)
    outbox,         \* e-mail send attempts (as a set)
    inflight,       \* bag of requests between their read and their write
    channel_layer,  \* what get_channel_layer() gives and whether its group_send works
    last,           \* the request that completed last, with its response
    now,            \* time.time(), in seconds
    rate_limit,     \* cache entry rate_limit:login:<ip>:<user>
    rapid_requests, \* cache entry rapid_requests:<ip>
    suspicious_count, \* cache entry suspicious_count:<ip>
    blocked_ip,     \* cache entry blocked_ip:<ip>
    security_events,  \* cache entry security_events:<day> (as the set of event types)
    request_metadata, \* cache entry request_metadata:<ip> (as the set of paths)
    rate_last,      \* what the last check_rate_limit returned
    sec_last,       \* how SecurityMiddleware answered the last request
    granted,        \* history: the times of the checks allowed in the current window
    detected        \* history: the run of suspicious detections and the block it led to

tradeVars == <<trades, notifications, activities, outbox, inflight, channel_layer, last>>

secVars ==
    <<now, rate_limit, rapid_requests, suspicious_count, blocked_ip,
      security_events, request_metadata, rate_last, sec_last, granted, detected>>

\* ------------------------------------------------------------------------
\* The state of the other subsystems, by subsystem
\* ------------------------------------------------------------------------
VARIABLES
    inbox,
    marking,
    clock,
    read_resp,
    favorites,
    toggled,
    fav_resp,
    search_history,
    searched,
    session,
    sess_last,
    chat_groups,
    chat_refused,
    chat_events,
    chat_messages,
    msg_resp,
    live_rows,
    broadcasted,
    listing,
    rec_candidates,
    rec_limit,
    rec_result,
    rec_done,
    catalogue,
    search_results,
    search_done,
    gallery,
    items_created,
    creating,
    img_last,
    rate_reading,
    response_cache,
    cache_last,
    cache_clock,
    interactions,
    rec_cache,
    rec_computing,
    rec_resp,
    recent_interactions,
    category_weights,
    learn_resp,
    open_channels,
    online_status,
    tracked,
    match_recs

\* inbox: Notification rows by id: recipient, is_read, read_at (0 for None)
\* marking: bag of mark_as_read calls between loading the row and saving it
\* clock: timezone.now()
\* read_resp: how the last mark-read request was answered
notifVars == <<inbox, marking, clock, read_resp>>

\* favorites: bag of Favorite rows [user, item]
\* toggled: history: the number of toggle_favorite calls made per (user, item)
\* fav_resp: how the last toggle_favorite request was answered
favVars == <<favorites, toggled, fav_resp>>

\* search_history: SearchHistory rows per user, in insertion order, each row by its created_at
\* searched: history: per user, the number of searches recorded for them
searchVars == <<search_history, searched>>

\* session: the session of one browser: whether a user is logged in, last_activity and ip_address (0 and the empty string when absent)
\* sess_last: the last request through SessionSecurityMiddleware and its answer
sessVars == <<session, sess_last>>

\* chat_groups: channel-layer groups chat_trade_<id>: the connections in each
\* chat_refused: history: the connection attempts that were closed in connect
\* chat_events: the events sent to the chat groups, as a set of [group, type, user]
\* chat_messages: Message rows: trade, sender and the way they came (trade_detail or the chat websocket)
\* msg_resp: how the last message post or chat frame was dealt with
chatVars == <<chat_groups, chat_refused, chat_events, chat_messages, msg_resp>>

\* live_rows: LiveActivity rows in creation order (id = index): the is_public flag of each
\* broadcasted: the ids of the activities sent to the group live_activities
\* listing: the last list of activities handed to a client: by which path, and the ids
feedVars == <<live_rows, broadcasted, listing>>

\* rec_candidates: the candidate recommendations of one generation batch, in the order the strategies produced them
\* rec_limit: the requested limit
\* rec_result: what _deduplicate_and_rank returned for them
\* rec_done: whether rec_result has been computed for the current candidates
recVars == <<rec_candidates, rec_limit, rec_result, rec_done>>

\* catalogue: the items on offer, by id: whether title and description contain the query, and created_at
\* search_results: the item ids AdvancedSearchEngine.search returned, in order
\* search_done: whether the search has been run on the catalogue
rankVars == <<catalogue, search_results, search_done>>

\* gallery: ItemImage rows by id: item (0 for None) and order
\* items_created: the number of items made by item_create
\* creating: the item an item_create request is attaching images to, 0 when none is running
\* img_last: the last ItemImage save: the view, the image id and the order it was given
galleryVars == <<gallery, items_created, creating, img_last>>

\* rate_reading: bag of check_rate_limit calls that have read and pruned the attempt list and not yet stored it: the list and the time read
raceVars == <<rate_reading>>

\* response_cache: the entries CacheMiddleware has stored in the cache, by key: the response and its expiry
\* cache_last: the last request through CacheMiddleware and the response it got
\* cache_clock: the time of the cache behind CacheMiddleware
cacheVars == <<response_cache, cache_last, cache_clock>>

\* interactions: the number of UserInteraction rows of the user
\* rec_cache: the cache entry recommendations_user_<id>: whether it is there, and the number of interactions the list in it was made from
\* rec_computing: bag of get_cached_recommendations calls that missed the cache and hold a list not stored yet, each by the number of interactions its list was made from
\* rec_resp: what the last get_cached_recommendations call returned: from the cache or not, and the number of interactions the list was made from
recCacheVars == <<interactions, rec_cache, rec_computing, rec_resp>>

\* recent_interactions: the UserInteraction rows of the user in the last 30 days: item category and interaction_type
\* category_weights: prefs.category_weights as stored: per category the score and the maximum it is divided by
\* learn_resp: how _learn_user_preferences ended: not run, stored, or raised
learnVars == <<recent_interactions, category_weights, learn_resp>>

\* open_channels: per user, the channels of the user's open, accepted notification websocket connections
\* online_status: per user, the UserOnlineStatus row: whether it exists, is_online and channel_name (0 for the empty name)
onlineVars == <<open_channels, online_status>>

\* tracked: the UserInteraction rows: user, item and interaction_type
\* match_recs: the MatchRecommendation rows of the last generate_recommendations_for_user call: user, recommended item and recommendation_type
matchVars == <<tracked, match_recs>>

appVars == <<notifVars, favVars, searchVars, sessVars, chatVars, feedVars, recVars, rankVars, galleryVars, raceVars, cacheVars, recCacheVars, learnVars, onlineVars, matchVars>>

exceptNotif == <<tradeVars, secVars, favVars, searchVars, sessVars, chatVars, feedVars, recVars, rankVars, galleryVars, raceVars, cacheVars, recCacheVars, learnVars, onlineVars, matchVars>>
exceptFav == <<tradeVars, secVars, notifVars, searchVars, sessVars, chatVars, feedVars, recVars, rankVars, galleryVars, raceVars, cacheVars, recCacheVars, learnVars, onlineVars, matchVars>>
exceptFavTrade == <<secVars, notifVars, searchVars, sessVars, chatVars, feedVars, recVars, rankVars, galleryVars, raceVars, cacheVars, recCacheVars, learnVars, onlineVars, matchVars>>
exceptSearch == <<tradeVars, secVars, notifVars, favVars, sessVars, chatVars, feedVars, recVars, rankVars, galleryVars, raceVars, cacheVars, recCacheVars, learnVars, onlineVars, matchVars>>
exceptSess == <<tradeVars, secVars, notifVars, favVars, searchVars, chatVars, feedVars, recVars, rankVars, galleryVars, raceVars, cacheVars, recCacheVars, learnVars, onlineVars, matchVars>>
exceptSessSec == <<tradeVars, notifVars, favVars, searchVars, chatVars, feedVars, recVars, rankVars, galleryVars, raceVars, cacheVars, recCacheVars, learnVars, onlineVars, matchVars>>
exceptChat == <<tradeVars, secVars, notifVars, favVars, searchVars, sessVars, feedVars, recVars, rankVars, galleryVars, raceVars, cacheVars, recCacheVars, learnVars, onlineVars, matchVars>>
exceptFeed == <<tradeVars, secVars, notifVars, favVars, searchVars, sessVars, chatVars, recVars, rankVars, galleryVars, raceVars, cacheVars, recCacheVars, learnVars, onlineVars, matchVars>>
exceptRec == <<tradeVars, secVars, notifVars, favVars, searchVars, sessVars, chatVars, feedVars, rankVars, galleryVars, raceVars, cacheVars, recCacheVars, learnVars, onlineVars, matchVars>>
exceptRank == <<tradeVars, secVars, notifVars, favVars, searchVars, sessVars, chatVars, feedVars, recVars, galleryVars, raceVars, cacheVars, recCacheVars, learnVars, onlineVars, matchVars>>
exceptGallery == <<tradeVars, secVars, notifVars, favVars, searchVars, sessVars, chatVars, feedVars, recVars, rankVars, raceVars, cacheVars, recCacheVars, learnVars, onlineVars, matchVars>>
exceptGalleryTrade == <<secVars, notifVars, favVars, searchVars, sessVars, chatVars, feedVars, recVars, rankVars, raceVars, cacheVars, recCacheVars, learnVars, onlineVars, matchVars>>
exceptRace == <<tradeVars, secVars, notifVars, favVars, searchVars, sessVars, chatVars, feedVars, recVars, rankVars, galleryVars, cacheVars, recCacheVars, learnVars, onlineVars, matchVars>>
exceptRaceSec == <<tradeVars, notifVars, favVars, searchVars, sessVars, chatVars, feedVars, recVars, rankVars, galleryVars, cacheVars, recCacheVars, learnVars, onlineVars, matchVars>>
exceptCache == <<tradeVars, secVars, notifVars, favVars, searchVars, sessVars, chatVars, feedVars, recVars, rankVars, galleryVars, raceVars, recCacheVars, learnVars, onlineVars, matchVars>>
exceptRecCache == <<tradeVars, secVars, notifVars, favVars, searchVars, sessVars, chatVars, feedVars, recVars, rankVars, galleryVars, raceVars, cacheVars, learnVars, onlineVars, matchVars>>
exceptLearn == <<tradeVars, secVars, notifVars, favVars, searchVars, sessVars, chatVars, feedVars, recVars, rankVars, galleryVars, raceVars, cacheVars, recCacheVars, onlineVars, matchVars>>
exceptOnline == <<tradeVars, secVars, notifVars, favVars, searchVars, sessVars, chatVars, feedVars, recVars, rankVars, galleryVars, raceVars, cacheVars, recCacheVars, learnVars, matchVars>>
exceptMatch == <<tradeVars, secVars, notifVars, favVars, searchVars, sessVars, chatVars, feedVars, recVars, rankVars, galleryVars, raceVars, cacheVars, recCacheVars, learnVars, onlineVars>>

\* (end of the variable groups)

\* ------------------------------------------------------------------------
\* Trade rows and the constraints of Trade.Meta
\* ------------------------------------------------------------------------
TradeRow(u, resp, off, req) ==
    [requester |-> u, responder |-> resp, offered_item |-> off,
     requested_item |-> req, status |-> PENDING]

SameTuple(t, row) ==
    /\ t.requester = row.requester
    /\ t.responder = row.responder
    /\ t.offered_item = row.offered_item
    /\ t.requested_item = row.requested_item

\* CheckConstraint trade_requester_not_responder
RequesterNotResponder(row) == row.requester # row.responder

\* CheckConstraint trade_offered_not_requested
OfferedNotRequested(row) == row.offered_item # row.requested_item

\* UniqueConstraint uniq_pending_trade_per_pair (condition status = pending)
UniqPendingMut(rows, row) == TRUE
UniqPending(rows, row) ==
    row.status = PENDING =>
        ~ \E k \in 1..Len(rows) : rows[k].status = PENDING /\ SameTuple(rows[k], row)

\* the insert succeeds iff no constraint is violated, else IntegrityError
InsertAllowed(rows, row) ==
    /\ RequesterNotResponder(row)
    /\ OfferedNotRequested(row)
    /\ UniqPending(rows, row)

\* ------------------------------------------------------------------------
\* TradeCreateForm
\* ------------------------------------------------------------------------
\* self.fields["offered_item"].queryset = Item.objects.filter(owner=user)
OfferedQuerysetMut(user) == Items
OfferedQueryset(user) == {i \in Items : ItemOwner[i] = user}

\* form.is_valid(): the posted offered_item is one of the queryset
FormIsValid(user, offered) == offered \in OfferedQueryset(user)

\* the existing pending trade looked up by trade_create (0 if none);
\* order_by("-created_at").first() is the latest row
ExistingPending(rows, row) ==
    LET ks == {k \in 1..Len(rows) : rows[k].status = PENDING /\ SameTuple(rows[k], row)}
    IN  IF ks = {} THEN 0 ELSE CHOOSE k \in ks : \A j \in ks : j <= k

\* if requested_item.owner == request.user: error, redirect
OwnItemMut(user, item) == FALSE
OwnItem(user, item) == ItemOwner[item] = user

\* ------------------------------------------------------------------------
\* e-mail (market/utils/email.py)
\* ------------------------------------------------------------------------
\* send_new_trade_offer_email: to the responder, skipped without address
NewTradeOfferEmail(pk, row) ==
    IF HasEmail[row.responder]
    THEN {[to |-> row.responder, template |-> "new_trade_offer", trade |-> pk]}
    ELSE {}

\* send_trade_status_update_email: to the requester, skipped without address
TradeStatusUpdateEmail(pk, row) ==
    IF HasEmail[row.requester]
    THEN {[to |-> row.requester, template |-> "trade_status_update", trade |-> pk,
           status |-> row.status]}
    ELSE {}

\* ------------------------------------------------------------------------
\* Requests in progress and the response log
\* ------------------------------------------------------------------------
\* the locals a request carries from its read to its write
CreateJob(user, offered, requested) ==
    [kind |-> "trade_create", user |-> user, pk |-> 0, action |-> "-",
     offered |-> offered, requested |-> requested]

ActionJob(user, pk, action) ==
    [kind |-> "trade_action", user |-> user, pk |-> pk, action |-> action,
     offered |-> "-", requested |-> "-"]

Begin(j) == inflight' = inflight (+) SetToBag({j})

End(j) == inflight' = inflight (-) SetToBag({j})

Busy == BagCardinality(inflight)

Done(kind, resp) == [kind |-> kind, resp |-> resp]

TradeInit ==
    /\ trades = <<>>
    /\ notifications = {}
    /\ activities = {}
    /\ outbox = {}
    /\ inflight = EmptyBag
    /\ last = [kind |-> "-", resp |-> "-"]

\* ------------------------------------------------------------------------
\* trade_create (market/views.py)
\* ------------------------------------------------------------------------
\* the row trade_create builds from the request
JobRow(j) == TradeRow(j.user, ItemOwner[j.requested], j.offered, j.requested)

\* inserts that passed their existence check and have not run yet
Inserting == BagCardinality([j \in {i \in DOMAIN inflight : i.kind = "trade_create"} |-> inflight[j]])

\* The request up to its existence check: get_object_or_404, the own-item
\* test, the form, and the lookup of an existing pending trade.
TradeCreateCheck ==
    /\ \E user \in Users, requested \in RequestedInputs,
          offered \in Items, method \in {"GET", "POST"} :
         IF requested = NoItem
         THEN /\ last' = Done("trade_create", "404")
              /\ UNCHANGED inflight
         ELSE IF OwnItem(user, requested)
         THEN /\ last' = Done("trade_create", "own_item")
              /\ UNCHANGED inflight
         ELSE IF method # "POST" \/ ~ FormIsValid(user, offered)
         THEN /\ last' = Done("trade_create", "form")
              /\ UNCHANGED inflight
         ELSE LET j == CreateJob(user, offered, requested)
              IN  IF ExistingPending(trades, JobRow(j)) # 0
                  THEN /\ last' = Done("trade_create", "redirect_existing")
                       /\ UNCHANGED inflight
                  ELSE /\ Busy < NumWorkers
                       /\ Len(trades) + Inserting < MaxTrades
                       /\ Begin(j)
                       /\ UNCHANGED last
    /\ UNCHANGED <<trades, notifications, activities, outbox, channel_layer>>
    /\ UNCHANGED <<secVars, appVars>>

\* Trade.objects.create(...), then notify_new_trade_offer and the redirect.
\* No handler catches the IntegrityError of a violated constraint.
TradeCreateInsert(j) ==
    /\ BagIn(j, inflight)
    /\ j.kind = "trade_create"
    /\ LET row == JobRow(j)
           pk == Len(trades) + 1
       IN  IF InsertAllowed(trades, row)
           THEN /\ trades' = Append(trades, row)
                /\ outbox' = outbox \cup NewTradeOfferEmail(pk, row)
                /\ last' = Done("trade_create", "created")
           ELSE /\ last' = Done("trade_create", "500")
                /\ UNCHANGED <<trades, outbox>>
    /\ End(j)
    /\ UNCHANGED <<notifications, activities, channel_layer>>
    /\ UNCHANGED <<secVars, appVars>>

\* ------------------------------------------------------------------------
\* trade_action (market/views.py)
\* ------------------------------------------------------------------------
\* the if / elif / else of trade_action, evaluated on the loaded row
TradeActionBranchMut(t, user, action) ==
    IF action = "cancel" /\ t.status = PENDING
    THEN "cancel"
    ELSE IF action \in {"accept", "reject"} /\ t.responder = user /\ t.status = PENDING
    THEN "respond"
    ELSE "denied"
TradeActionBranch(t, user, action) ==
    IF action = "cancel" /\ t.requester = user /\ t.status = PENDING
    THEN "cancel"
    ELSE IF action \in {"accept", "reject"} /\ t.responder = user /\ t.status = PENDING
    THEN "respond"
    ELSE "denied"

\* the status the taken branch assigns
NewStatus(action) ==
    IF action = "cancel" THEN CANCELLED
    ELSE IF action = "accept" THEN ACCEPTED ELSE REJECTED

\* get_object_or_404(Trade, pk) and the branch on the loaded row; the else
\* branch answers at once, the other two go on to trade.save()
TradeActionLoad ==
    /\ \E user \in Users, pk \in 1..(MaxTrades + 1), action \in TradeActions :
         IF pk > Len(trades)
         THEN /\ last' = Done("trade_action", "404")
              /\ UNCHANGED inflight
         ELSE IF TradeActionBranch(trades[pk], user, action) = "denied"
         THEN /\ last' = Done("trade_action", "denied")
              /\ UNCHANGED inflight
         ELSE /\ Busy < NumWorkers
              /\ Begin(ActionJob(user, pk, action))
              /\ UNCHANGED last
    /\ UNCHANGED <<trades, notifications, activities, outbox, channel_layer>>
    /\ UNCHANGED <<secVars, appVars>>

\* Notification.objects.create of send_trade_response_notification; is_sent
\* is set once the group send has returned
TradeResponseNotification(pk, t, accepted, sent) ==
    [recipient |-> t.requester, sender |-> t.responder,
     notification_type |-> IF accepted THEN "trade_accepted" ELSE "trade_rejected",
     object_id |-> pk, is_sent |-> sent]

\* LiveActivity.objects.create of track_trade_completed
TradeCompletedActivity(pk, t) ==
    [user |-> t.requester, activity_type |-> "trade_completed",
     object_id |-> pk, is_public |-> TRUE]

\* trade.save() and what follows it.  The loaded row is written back with
\* its new status whatever the stored row has become.  A group_send that
\* raises (send_realtime_notification, broadcast_activity) is not caught
\* anywhere up to the view: the request ends there with a server error and
\* the rows written so far stay.
TradeActionSave(j) ==
    /\ BagIn(j, inflight)
    /\ j.kind = "trade_action"
    /\ LET t == [trades[j.pk] EXCEPT !.status = NewStatus(j.action)]
       IN  /\ trades' = [trades EXCEPT ![j.pk] = t]
           /\ IF j.action = "cancel"
              THEN /\ last' = Done("trade_action", "cancelled")
                   /\ UNCHANGED <<notifications, activities, outbox>>
              ELSE /\ notifications' = notifications \cup
                          {TradeResponseNotification(j.pk, t, j.action = "accept",
                                                     channel_layer = "up")}
                   /\ IF channel_layer = "down"
                      THEN /\ last' = Done("trade_action", "500")
                           /\ UNCHANGED <<activities, outbox>>
                      ELSE /\ activities' =
                                 IF j.action = "accept"
                                 THEN activities \cup {TradeCompletedActivity(j.pk, t)}
                                 ELSE activities
                           /\ outbox' = outbox \cup TradeStatusUpdateEmail(j.pk, t)
                           /\ last' = Done("trade_action", "updated")
    /\ End(j)
    /\ UNCHANGED channel_layer
    /\ UNCHANGED <<secVars, appVars>>

\* the broker behind the channel layer becomes unreachable / comes back
ChannelOutage ==
    /\ channel_layer = "up"
    /\ channel_layer' = "down"
    /\ UNCHANGED <<trades, notifications, activities, outbox, inflight, last>>
    /\ UNCHANGED <<secVars, appVars>>

ChannelRestore ==
    /\ channel_layer = "down"
    /\ channel_layer' = "up"
    /\ UNCHANGED <<trades, notifications, activities, outbox, inflight, last>>
    /\ UNCHANGED <<secVars, appVars>>

\* ------------------------------------------------------------------------
\* The cache behind SecurityManager and SecurityMiddleware
\* ------------------------------------------------------------------------
\* One client address and one request identifier are followed.  A cache
\* entry is its value with the time it expires at: cache.set(key, v, ttl)
\* stores [val |-> v, exp |-> now + ttl] and cache.get answers the default
\* once now has reached exp.
LoginCount == 5
LoginWindow == 300
RapidWindow == 60
RapidLimit == 30
SuspiciousWindow == 3600
SuspiciousLimit == 3
BlockDuration == 3600

\* self.rate_limits, the entry of the action followed here
RateLimits == [login |-> [count |-> LoginCount, window |-> LoginWindow]]

Paths == {"/login/", "/items/"}

RateTimeSteps == {100, 200, 300}
SecTimeSteps == {1800, 3600}

CacheSet(v, ttl) == [val |-> v, exp |-> now + ttl]
CacheGet(e, default) == IF now < e.exp THEN e.val ELSE default
Missing(default) == [val |-> default, exp |-> 0]

\* [attempt for attempt in attempts if now - attempt < window]
Pruned(attempts, t, window) == SelectSeq(attempts, LAMBDA a : t - a < window)

LimitReachedMut(attempts, cfg) == Len(attempts) > cfg.count
LimitReached(attempts, cfg) == Len(attempts) >= cfg.count

RetryAfter(attempts, t, cfg) ==
    IF attempts # <<>> THEN cfg.window - (t - attempts[1]) ELSE 0

CurrentAttempts(action) ==
    Pruned(CacheGet(rate_limit, <<>>), now, RateLimits[action].window)

\* what check_rate_limit is about to answer
RateAllowed(action) == ~LimitReached(CurrentAttempts(action), RateLimits[action])

\* SecurityManager.check_rate_limit for a limited action
CheckRateLimit(action) ==
    LET cfg == RateLimits[action]
        attempts == CurrentAttempts(action)
    IN  IF LimitReached(attempts, cfg)
        THEN /\ rate_last' = [allowed |-> FALSE,
                              retry_after |-> RetryAfter(attempts, now, cfg),
                              at |-> now]
             /\ UNCHANGED <<rate_limit, granted>>
        ELSE /\ rate_limit' = CacheSet(Append(attempts, now), cfg.window)
             /\ rate_last' = [allowed |-> TRUE, retry_after |-> 0, at |-> now]
             /\ granted' = Append(granted, now)

\* SecurityMiddleware._determine_action
DetermineAction(path) == IF path = "/login/" THEN "login" ELSE "none"

\* SecurityManager._check_rapid_requests
RecentRequests == Pruned(CacheGet(rapid_requests, <<>>), now, RapidWindow)
RapidHit == Len(RecentRequests) > RapidLimit

\* SecurityMiddleware._get_suspicious_count
SuspiciousCount == CacheGet(suspicious_count, 0) + 1

BlockNeededMut(count) == count > SuspiciousLimit + 1
BlockNeeded(count) == count > SuspiciousLimit

\* SecurityManager.is_ip_blocked
IsIpBlockedMut == FALSE
IsIpBlocked == CacheGet(blocked_ip, FALSE)

\* the run of detections: one more if the previous one is less than the
\* counting window ago, else the first of a new run
Detect(d) ==
    [streak |-> IF d.streak > 0 /\ now - d.last < SuspiciousWindow
                THEN d.streak + 1 ELSE 1,
     last |-> now]

Answer(status, stage) == [status |-> status, stage |-> stage]

SecInit ==
    /\ now = 0
    /\ rate_limit = Missing(<<>>)
    /\ rapid_requests = Missing(<<>>)
    /\ suspicious_count = Missing(0)
    /\ blocked_ip = Missing(FALSE)
    /\ security_events = {}
    /\ request_metadata = Missing({})
    /\ rate_last = [allowed |-> TRUE, retry_after |-> 0, at |-> 0]
    /\ sec_last = Answer(0, "-")
    /\ granted = <<>>
    /\ detected = [streak |-> 0, last |-> 0]

\* SecurityMiddleware._store_request_metadata
StoreRequestMetadata(path) ==
    request_metadata' = CacheSet(CacheGet(request_metadata, {}) \cup {path}, 3600)

\* SecurityMiddleware.process_request, stages 3 and 4
DetectAndStore(path, bad) ==
    /\ rapid_requests' = IF RapidHit THEN rapid_requests
                         ELSE CacheSet(Append(RecentRequests, now), RapidWindow)
    /\ IF bad \/ RapidHit
       THEN /\ security_events' = security_events \cup {"suspicious_activity"}
            /\ suspicious_count' = CacheSet(SuspiciousCount, SuspiciousWindow)
            /\ detected' = Detect(detected)
            /\ IF BlockNeeded(SuspiciousCount)
               THEN /\ blocked_ip' = CacheSet(TRUE, BlockDuration)
                    /\ sec_last' = Answer(403, "suspicious")
                    /\ UNCHANGED request_metadata
               ELSE /\ StoreRequestMetadata(path)
                    /\ sec_last' = Answer(200, "pass")
                    /\ UNCHANGED blocked_ip
       ELSE /\ StoreRequestMetadata(path)
            /\ sec_last' = Answer(200, "pass")
            /\ UNCHANGED <<security_events, suspicious_count, detected, blocked_ip>>

\* SecurityMiddleware.process_request for one request: its path and whether
\* its content, user agent or headers are flagged
ProcessRequest ==
    \E path \in Paths, bad \in BOOLEAN :
        /\ IF IsIpBlocked
           THEN /\ sec_last' = Answer(403, "block")
                /\ UNCHANGED <<rate_limit, rapid_requests, suspicious_count,
                               blocked_ip, security_events, request_metadata,
                               rate_last, granted, detected>>
           ELSE IF DetermineAction(path) = "login"
           THEN /\ CheckRateLimit("login")
                /\ IF RateAllowed("login")
                   THEN DetectAndStore(path, bad)
                   ELSE /\ security_events' =
                               security_events \cup {"rate_limit_exceeded"}
                        /\ sec_last' = Answer(429, "rate_limit")
                        /\ UNCHANGED <<rapid_requests, suspicious_count,
                                       blocked_ip, request_metadata, detected>>
           ELSE /\ DetectAndStore(path, bad)
                /\ UNCHANGED <<rate_limit, rate_last, granted>>
        /\ UNCHANGED now
        /\ UNCHANGED <<tradeVars, appVars>>

\* one direct check_rate_limit call for the login action
RateCheck ==
    /\ CheckRateLimit("login")
    /\ UNCHANGED <<now, rapid_requests, suspicious_count, blocked_ip,
                   security_events, request_metadata, sec_last, detected>>
    /\ UNCHANGED <<tradeVars, appVars>>

Expire(e, t, default) == IF t < e.exp THEN e ELSE Missing(default)

\* d seconds pass; the cache drops the entries that have expired
Tick(d) ==
    /\ now + d <= MaxTime
    /\ now' = now + d
    /\ rate_limit' = Expire(rate_limit, now', <<>>)
    /\ rapid_requests' = Expire(rapid_requests, now', <<>>)
    /\ suspicious_count' = Expire(suspicious_count, now', 0)
    /\ blocked_ip' = Expire(blocked_ip, now', FALSE)
    /\ request_metadata' = Expire(request_metadata, now', {})
    /\ granted' = Pruned(granted, now', LoginWindow)
    /\ detected' = IF now' - detected.last < SuspiciousWindow
                   THEN detected ELSE [streak |-> 0, last |-> 0]
    /\ UNCHANGED <<security_events, rate_last, sec_last>>
    /\ UNCHANGED <<tradeVars, appVars>>

RateTick == \E d \in RateTimeSteps : Tick(d)
SecTick == \E d \in SecTimeSteps : Tick(d)

\* ------------------------------------------------------------------------
\* Notification read state: Notification.mark_as_read and mark_all_read
\* ------------------------------------------------------------------------
MaxClock == 3

\* the Notification rows followed, both addressed to A
NotifIds == {1, 2}
NotifRecipient == [n \in NotifIds |-> "A"]

\* the users who send mark-read requests
Readers == {"A", "B"}

\* the ids a mark-read request may name; no row has the last one
RequestedIds == NotifIds \cup {3}

ReadResp(status, user, n) == [status |-> status, user |-> user, id |-> n]

NotifInit ==
    /\ inbox = [n \in NotifIds |->
                  [recipient |-> NotifRecipient[n], is_read |-> FALSE, read_at |-> 0]]
    /\ marking = EmptyBag
    /\ clock = 1
    /\ read_resp = ReadResp("-", "-", 0)

\* Notification.objects.get(id=notification_id, recipient=user) finds a row
OwnNotificationMut(user, n) == n \in NotifIds
OwnNotification(user, n) == n \in NotifIds /\ inbox[n].recipient = user

\* mark_notification_read (HTTP view and NotificationConsumer): the row is
\* loaded by id and recipient; a row of somebody else is not found
MarkReadLoad ==
    \E user \in Readers, n \in RequestedIds :
        /\ OwnNotification(user, n)
        /\ BagCardinality(marking) < NumWorkers
        /\ marking' = marking (+)
               SetToBag({[id |-> n, user |-> user, is_read |-> inbox[n].is_read]})
        /\ UNCHANGED <<inbox, clock, read_resp>>
        /\ UNCHANGED exceptNotif

MarkReadNotFound ==
    \E user \in Readers, n \in RequestedIds :
        /\ ~OwnNotification(user, n)
        /\ read_resp' = ReadResp("404", user, n)
        /\ UNCHANGED <<inbox, marking, clock>>
        /\ UNCHANGED exceptNotif

\* Notification.mark_as_read on the loaded instance
MarkAsRead(row, loaded_is_read) ==
    IF ~loaded_is_read
    THEN [row EXCEPT !.is_read = TRUE, !.read_at = clock]
    ELSE row

MarkReadSave(j) ==
    /\ BagIn(j, marking)
    /\ marking' = marking (-) SetToBag({j})
    /\ inbox' = [inbox EXCEPT ![j.id] = MarkAsRead(inbox[j.id], j.is_read)]
    /\ read_resp' = ReadResp("ok", j.user, j.id)
    /\ UNCHANGED clock
    /\ UNCHANGED exceptNotif

\* NotificationService.mark_all_read: one UPDATE over the unread rows
MarkAllRead ==
    \E user \in Readers :
        /\ inbox' = [n \in NotifIds |->
                       IF inbox[n].recipient = user /\ ~inbox[n].is_read
                       THEN [inbox[n] EXCEPT !.is_read = TRUE, !.read_at = clock]
                       ELSE inbox[n]]
        /\ read_resp' = ReadResp("all", user, 0)
        /\ UNCHANGED <<marking, clock>>
        /\ UNCHANGED exceptNotif

ClockTick ==
    /\ clock < MaxClock
    /\ clock' = clock + 1
    /\ UNCHANGED <<inbox, marking, read_resp>>
    /\ UNCHANGED exceptNotif

\* ------------------------------------------------------------------------
\* Favorites: toggle_favorite
\* ------------------------------------------------------------------------
MaxToggles == 3

\* the users who toggle favorites
FavUsers == {"A", "B"}

FavRow(user, item) == [user |-> user, item |-> item]

FavInit ==
    /\ favorites = EmptyBag
    /\ toggled = [p \in FavUsers \X Items |-> 0]
    /\ fav_resp = "-"

\* Favorite.objects.get_or_create finds the row of the pair, or inserts it
\* (unique_together user, item)
RowExistsMut(rows, row) == FALSE
RowExists(rows, row) == BagIn(row, rows)

\* the item_liked Notification of create_notification
ItemLikedNotification(user, item, sent) ==
    [recipient |-> ItemOwner[item], sender |-> user,
     notification_type |-> "item_liked", object_id |-> item, is_sent |-> sent]

ItemFavoritedActivity(user, item) ==
    [user |-> user, activity_type |-> "item_favorited", object_id |-> item]

\* toggle_favorite, requests served one at a time.  The UserInteraction row
\* and the preference refresh of update_user_interaction, which nothing
\* here reads, are left out.
ToggleFavorite ==
    \E user \in FavUsers, item \in Items :
        LET row == FavRow(user, item) IN
        /\ toggled[<<user, item>>] < MaxToggles
        /\ toggled' = [toggled EXCEPT ![<<user, item>>] = @ + 1]
        /\ IF ItemOwner[item] = user
           THEN /\ fav_resp' = "own_item"
                /\ UNCHANGED <<favorites, notifications, activities>>
           ELSE IF RowExists(favorites, row)
           THEN /\ favorites' = favorites (-) SetToBag({row})
                /\ fav_resp' = "removed"
                /\ UNCHANGED <<notifications, activities>>
           ELSE /\ favorites' = favorites (+) SetToBag({row})
                /\ notifications' = notifications \cup
                       {ItemLikedNotification(user, item, channel_layer = "up")}
                /\ IF channel_layer = "down"
                   THEN /\ fav_resp' = "500"
                        /\ UNCHANGED activities
                   ELSE /\ fav_resp' = "added"
                        /\ activities' = activities \cup
                               {ItemFavoritedActivity(user, item)}
        /\ UNCHANGED <<trades, outbox, inflight, channel_layer, last>>
        /\ UNCHANGED exceptFavTrade

\* ------------------------------------------------------------------------
\* Search history: AdvancedSearchEngine._save_search_history
\* ------------------------------------------------------------------------
MaxSearches == 105
HistoryLimit == 100

\* the authenticated users who search, and the anonymous visitor
SearchUsers == {"A", "B"}
Anonymous == "anonymous"

\* the query strings after strip(): empty, or some text
Queries == {"", "phone"}

SearchInit ==
    /\ search_history = [u \in SearchUsers |-> <<>>]
    /\ searched = [u \in SearchUsers |-> 0]

\* created_at of a user's next row: later than that of every row the user
\* has had (only rows of one user are ever compared)
NextCreatedAt(user) == searched[user] + 1

RECURSIVE Reverse(_)
Reverse(seq) == IF seq = <<>> THEN <<>> ELSE Append(Reverse(Tail(seq)), Head(seq))

\* SearchHistory.objects.filter(user=user), which Meta.ordering sorts by
\* -created_at: the newest row first
NewestFirst(rows) == Reverse(rows)

\* SearchHistory.objects.filter(user=user)[100:]
OldSearchesMut(rows) == SubSeq(NewestFirst(rows), HistoryLimit + 2, Len(rows))
OldSearches(rows) == SubSeq(NewestFirst(rows), HistoryLimit + 1, Len(rows))

\* create the row, then delete the rows of OldSearches by id
SaveSearchHistory(rows, user) ==
    LET created == Append(rows, NextCreatedAt(user))
        old == {OldSearches(created)[i] : i \in 1..Len(OldSearches(created))}
    IN  SelectSeq(created, LAMBDA r : r \notin old)

\* AdvancedSearchEngine.search, as far as it writes SearchHistory
Search ==
    \E user \in SearchUsers \cup {Anonymous}, query \in Queries :
        /\ IF user # Anonymous /\ query # ""
           THEN /\ searched[user] < MaxSearches
                /\ search_history' = [search_history EXCEPT ![user] =
                                         SaveSearchHistory(@, user)]
                /\ searched' = [searched EXCEPT ![user] = @ + 1]
           ELSE UNCHANGED <<search_history, searched>>
        /\ UNCHANGED exceptSearch

\* ------------------------------------------------------------------------
\* Sessions: SessionSecurityMiddleware
\* ------------------------------------------------------------------------
SessionTimeout == 3600

ClientIps == {"10.0.0.1", "10.0.0.2"}

\* an empty session: nobody logged in, no keys
EmptySession == [auth |-> FALSE, last_activity |-> 0, ip_address |-> ""]

SessInit ==
    /\ session = EmptySession
    /\ sess_last = [ip |-> "", at |-> 0, status |-> 0, reason |-> "-", seq |-> 0]

\* django.contrib.auth login: the session now carries a user
SessionLogin ==
    /\ ~session.auth
    /\ session' = [session EXCEPT !.auth = TRUE]
    /\ UNCHANGED sess_last
    /\ UNCHANGED exceptSess

SessionExpiredMut(last_activity, t) ==
    last_activity # 0 /\ t - last_activity > 2 * SessionTimeout
SessionExpired(last_activity, t) ==
    last_activity # 0 /\ t - last_activity > SessionTimeout

IpMismatch(stored_ip, current_ip) == stored_ip # "" /\ stored_ip # current_ip

SessionAnswer(ip, status, reason) ==
    [ip |-> ip, at |-> now, status |-> status, reason |-> reason,
     seq |-> 1 - sess_last.seq]

\* SessionSecurityMiddleware.process_request for a request from address ip
SessionRequest ==
    \E ip \in ClientIps :
        /\ IF ~session.auth
           THEN /\ sess_last' = SessionAnswer(ip, 200, "anonymous")
                /\ UNCHANGED <<session, security_events>>
           ELSE IF SessionExpired(session.last_activity, now)
           THEN /\ session' = EmptySession
                /\ sess_last' = SessionAnswer(ip, 401, "expired")
                /\ UNCHANGED security_events
           ELSE IF IpMismatch(session.ip_address, ip)
           THEN /\ security_events' =
                       security_events \cup {"session_hijacking_attempt"}
                /\ session' = EmptySession
                /\ sess_last' = SessionAnswer(ip, 401, "hijacking")
           ELSE /\ session' = [session EXCEPT !.last_activity = now,
                                              !.ip_address = ip]
                /\ sess_last' = SessionAnswer(ip, 200, "ok")
                /\ UNCHANGED security_events
        /\ UNCHANGED <<now, rate_limit, rapid_requests, suspicious_count,
                       blocked_ip, request_metadata, rate_last, sec_last,
                       granted, detected>>
        /\ UNCHANGED exceptSessSec

\* ------------------------------------------------------------------------
\* Chat: ChatConsumer.connect and disconnect
\* ------------------------------------------------------------------------
\* the trade the chat is about, and the ids a client may put in the URL
ChatTrade == [requester |-> "A", responder |-> "B"]
ChatTradeIds == {1}
UrlTradeIds == {1, 2}

\* scope["user"]: a logged-in user, or AnonymousUser
ScopeUsers == Users \cup {Anonymous}

\* a websocket connection, known by who opened it and for which trade
Connection(user, trade_id) == [user |-> user, trade_id |-> trade_id]

ChatInit ==
    /\ chat_groups = [id \in UrlTradeIds |-> {}]
    /\ chat_refused = {}
    /\ chat_events = {}
    /\ chat_messages = {}
    /\ msg_resp = "-"

\* ChatConsumer.check_trade_access
CheckTradeAccessMut(user, trade_id) == trade_id \in ChatTradeIds
CheckTradeAccess(user, trade_id) ==
    /\ trade_id \in ChatTradeIds
    /\ ChatTrade.requester = user \/ ChatTrade.responder = user

GroupEvent(trade_id, type, user) == [group |-> trade_id, type |-> type, user |-> user]

\* ChatConsumer.connect; a connection closed here is then taken through
\* disconnect, which announces user_left and discards it from the group
ChatConnect ==
    \E user \in ScopeUsers, trade_id \in UrlTradeIds :
        LET c == Connection(user, trade_id) IN
        /\ c \notin chat_groups[trade_id]
        /\ IF user # Anonymous /\ CheckTradeAccess(user, trade_id)
           THEN /\ chat_groups' = [chat_groups EXCEPT ![trade_id] = @ \cup {c}]
                /\ chat_events' = chat_events \cup
                       {GroupEvent(trade_id, "user_joined", user)}
                /\ UNCHANGED chat_refused
           ELSE /\ chat_refused' = chat_refused \cup {c}
                /\ chat_events' = chat_events \cup
                       {GroupEvent(trade_id, "user_left", user)}
                /\ chat_groups' = [chat_groups EXCEPT ![trade_id] = @ \ {c}]
        /\ UNCHANGED <<chat_messages, msg_resp>>
        /\ UNCHANGED exceptChat

\* ChatConsumer.disconnect of an accepted connection
ChatDisconnect ==
    \E trade_id \in UrlTradeIds : \E c \in chat_groups[trade_id] :
        /\ chat_events' = chat_events \cup
               {GroupEvent(trade_id, "user_left", c.user)}
        /\ chat_groups' = [chat_groups EXCEPT ![trade_id] = @ \ {c}]
        /\ UNCHANGED <<chat_refused, chat_messages, msg_resp>>
        /\ UNCHANGED exceptChat

MessageRow(trade_id, sender, via) == [trade |-> trade_id, sender |-> sender, via |-> via]

\* trade_detail: request.user not in [trade.requester, trade.responder]
DetailAccessMut(user) == TRUE
DetailAccess(user) == user \in {ChatTrade.requester, ChatTrade.responder}

\* trade_detail, a POST: login_required, get_object_or_404, the party check
\* and the MessageForm
TradeDetailPost ==
    \E user \in ScopeUsers, pk \in UrlTradeIds, form_is_valid \in BOOLEAN :
        /\ IF user = Anonymous THEN
                /\ msg_resp' = "login"
                /\ UNCHANGED chat_messages
           ELSE IF pk \notin ChatTradeIds THEN
                /\ msg_resp' = "404"
                /\ UNCHANGED chat_messages
           ELSE IF ~DetailAccess(user) THEN
                /\ msg_resp' = "no_access"
                /\ UNCHANGED chat_messages
           ELSE IF ~form_is_valid THEN
                /\ msg_resp' = "form"
                /\ UNCHANGED chat_messages
           ELSE /\ msg_resp' = "posted"
                /\ chat_messages' = chat_messages \cup {MessageRow(pk, user, "trade_detail")}
        /\ UNCHANGED <<chat_groups, chat_refused, chat_events>>
        /\ UNCHANGED exceptChat

\* ChatConsumer.receive of a chat_message frame on an accepted connection,
\* with save_message; a connection closed in connect receives no frames,
\* and the trade of an accepted connection exists (trades are not deleted)
ChatReceive ==
    \E trade_id \in UrlTradeIds, has_content \in BOOLEAN :
        \E c \in chat_groups[trade_id] :
            /\ IF ~has_content THEN
                    /\ msg_resp' = "empty"
                    /\ UNCHANGED <<chat_messages, chat_events>>
               ELSE /\ msg_resp' = "sent"
                    /\ chat_messages' = chat_messages \cup
                           {MessageRow(c.trade_id, c.user, "chat")}
                    /\ chat_events' = chat_events \cup
                           {GroupEvent(trade_id, "chat_message", c.user)}
            /\ UNCHANGED <<chat_groups, chat_refused>>
            /\ UNCHANGED exceptChat

\* ------------------------------------------------------------------------
\* Live activities: create_activity, the admin visibility actions, and the
\* two listings (LiveActivityConsumer.send_recent_activities and the
\* live_activity_feed page)
\* ------------------------------------------------------------------------
MaxActivities == 3
RecentLimit == 50
FeedLimit == 100

FeedInit ==
    /\ live_rows = <<>>
    /\ broadcasted = {}
    /\ listing = [kind |-> "-", ids |-> {}, seq |-> 0]

\* if broadcast and is_public
ShouldBroadcastMut(is_public, broadcast) == broadcast
ShouldBroadcast(is_public, broadcast) == broadcast /\ is_public

\* LiveActivityService.create_activity with its two flags; a group_send
\* that fails leaves the row created and nothing sent
CreateActivity ==
    \E is_public \in BOOLEAN, broadcast \in BOOLEAN :
        /\ Len(live_rows) < MaxActivities
        /\ live_rows' = Append(live_rows, is_public)
        /\ broadcasted' =
               IF ShouldBroadcast(is_public, broadcast) /\ channel_layer = "up"
               THEN broadcasted \cup {Len(live_rows) + 1}
               ELSE broadcasted
        /\ UNCHANGED listing
        /\ UNCHANGED exceptFeed

\* LiveActivityAdmin: make the selected activities public or private
AdminSetPublic ==
    \E id \in DOMAIN live_rows, is_public \in BOOLEAN :
        /\ live_rows' = [live_rows EXCEPT ![id] = is_public]
        /\ UNCHANGED <<broadcasted, listing>>
        /\ UNCHANGED exceptFeed

\* LiveActivity.objects.filter(is_public=True)[:limit], newest first
PublicNewest(rows, limit) ==
    LET public == {i \in DOMAIN rows : rows[i]}
    IN  {i \in public : Cardinality({j \in public : j > i}) < limit}

Listed(kind, ids) == [kind |-> kind, ids |-> ids, seq |-> 1 - listing.seq]

\* LiveActivityConsumer.connect of a logged-in client
SendRecentActivities ==
    /\ listing' = Listed("recent", PublicNewest(live_rows, RecentLimit))
    /\ UNCHANGED <<live_rows, broadcasted>>
    /\ UNCHANGED exceptFeed

\* live_activity_feed
LiveActivityFeed ==
    /\ listing' = Listed("feed", PublicNewest(live_rows, FeedLimit))
    /\ UNCHANGED <<live_rows, broadcasted>>
    /\ UNCHANGED exceptFeed

\* ------------------------------------------------------------------------
\* Recommendations: SmartMatchingEngine._deduplicate_and_rank
\* ------------------------------------------------------------------------
MaxRecs == 3
MaxRecLimit == 3

RecItems == {1, 2, 3}
RecScores == {70, 85}

\* a candidate: the id of the recommended item and its match_score
Candidates == [item : RecItems, score : RecScores]

RECURSIVE SeqsUpTo(_, _)
SeqsUpTo(S, n) ==
    IF n = 0 THEN {<<>>}
    ELSE LET shorter == SeqsUpTo(S, n - 1)
         IN  shorter \cup {Append(s, x) : s \in {t \in shorter : Len(t) = n - 1}, x \in S}

RecInit ==
    /\ rec_candidates = <<>>
    /\ rec_limit = 0
    /\ rec_result = <<>>
    /\ rec_done = FALSE

\* rec['match_score'] > best_recs[item_id]['match_score']
BetterScoreMut(rec, held) == rec.score < held.score
BetterScore(rec, held) == rec.score > held.score

\* the position of the item's entry in best_recs (a dict keeps its keys in
\* the order they were first inserted), 0 if there is none
Held(best, item) ==
    IF \E i \in 1..Len(best) : best[i].item = item
    THEN CHOOSE i \in 1..Len(best) : best[i].item = item
    ELSE 0

\* the loop that fills best_recs
RECURSIVE BestRecs(_, _)
BestRecs(recs, best) ==
    IF recs = <<>> THEN best
    ELSE LET rec == Head(recs)
             at == Held(best, rec.item)
         IN  BestRecs(Tail(recs),
                      IF at = 0 THEN Append(best, rec)
                      ELSE IF BetterScore(rec, best[at])
                           THEN [best EXCEPT ![at] = rec]
                           ELSE best)

\* insert rec behind every entry whose score is at least as high: the
\* stable order of sorted(..., reverse=True)
InsertDesc(sorted, rec) ==
    LET ahead == Cardinality({i \in 1..Len(sorted) : sorted[i].score >= rec.score})
    IN  SubSeq(sorted, 1, ahead) \o <<rec>> \o SubSeq(sorted, ahead + 1, Len(sorted))

RECURSIVE SortedDesc(_, _)
SortedDesc(recs, sorted) ==
    IF recs = <<>> THEN sorted
    ELSE SortedDesc(Tail(recs), InsertDesc(sorted, Head(recs)))

\* sorted_recs[:limit], limit >= 0
FirstN(seq, limit) == SubSeq(seq, 1, IF limit < Len(seq) THEN limit ELSE Len(seq))

DeduplicateAndRank(recommendations, limit) ==
    FirstN(SortedDesc(BestRecs(recommendations, <<>>), <<>>), limit)

\* generate_recommendations_for_user, one batch: the strategies produce
\* some candidates ...
GenerateCandidates ==
    \E recs \in SeqsUpTo(Candidates, MaxRecs), limit \in 0..MaxRecLimit :
        /\ rec_candidates = <<>> /\ ~rec_done
        /\ rec_candidates' = recs
        /\ rec_limit' = limit
        /\ rec_result' = <<>>
        /\ rec_done' = FALSE
        /\ UNCHANGED exceptRec

\* ... and _deduplicate_and_rank is applied to them
RankCandidates ==
    /\ ~rec_done
    /\ rec_result' = DeduplicateAndRank(rec_candidates, rec_limit)
    /\ rec_done' = TRUE
    /\ UNCHANGED <<rec_candidates, rec_limit>>
    /\ UNCHANGED exceptRec

\* ------------------------------------------------------------------------
\* Search ranking: AdvancedSearchEngine.search with a text query, no user
\* and sort_by left at its default
\* ------------------------------------------------------------------------
MaxCreatedAt == 3

CatalogueIds == {1, 2}

\* the items differ in whether the query occurs in title and description
\* and in the second of today they were listed at; they have no favorites,
\* no images and the same category
Listings == [in_title : BOOLEAN, in_desc : BOOLEAN, created_at : 1..MaxCreatedAt]

NoListing == [in_title |-> FALSE, in_desc |-> FALSE, created_at |-> 0]

RankInit ==
    /\ catalogue = [id \in CatalogueIds |-> NoListing]
    /\ search_results = <<>>
    /\ search_done = FALSE

\* search_weights
ExactTitleMatch == 100
DescriptionMatch == 60
Recency == 20

\* _apply_text_search: title or description contains the query
TextSearch(items) == {id \in CatalogueIds : items[id].in_title \/ items[id].in_desc}

\* _calculate_item_score, times 10: title_score 1.0 or 0.3, desc_score 0.8
\* or 0.1, recency_score 1 for an item listed today
ItemScore(item) ==
    (IF item.in_title THEN 10 ELSE 3) * ExactTitleMatch
    + (IF item.in_desc THEN 8 ELSE 1) * DescriptionMatch
    + 10 * Recency

\* a set of ids as a list in primary-key order
RECURSIVE InIdOrder(_)
InIdOrder(ids) ==
    IF ids = {} THEN <<>>
    ELSE LET least == CHOOSE i \in ids : \A j \in ids : i <= j
         IN  <<least>> \o InIdOrder(ids \ {least})

\* sorted(..., reverse=True) on pairs [id, key]: descending key, equal keys
\* in their earlier order
InsertByKey(sorted, pair) ==
    LET ahead == Cardinality({i \in 1..Len(sorted) : sorted[i].key >= pair.key})
    IN  SubSeq(sorted, 1, ahead) \o <<pair>> \o SubSeq(sorted, ahead + 1, Len(sorted))

RECURSIVE SortByKeyDesc(_, _)
SortByKeyDesc(pairs, sorted) ==
    IF pairs = <<>> THEN sorted
    ELSE SortByKeyDesc(Tail(pairs), InsertByKey(sorted, Head(pairs)))

Ids(pairs) == [i \in 1..Len(pairs) |-> pairs[i].id]

\* _apply_ml_ranking
MlRanking(items, ids) ==
    Ids(SortByKeyDesc([i \in 1..Len(ids) |->
                          [id |-> ids[i], key |-> ItemScore(items[ids[i]])]], <<>>))

\* _apply_sorting; every value but the listed ones sorts like 'newest'
ApplySorting(items, ids, sort_by) ==
    IF sort_by = "oldest"
    THEN Ids(SortByKeyDesc([i \in 1..Len(ids) |->
                [id |-> ids[i], key |-> 0 - items[ids[i]].created_at]], <<>>))
    ELSE Ids(SortByKeyDesc([i \in 1..Len(ids) |->
                [id |-> ids[i], key |-> items[ids[i]].created_at]], <<>>))

\* query_params.get('sort_by', 'newest')
DefaultSortBy == "newest"

\* the items get listed ...
ListItems ==
    \E items \in [CatalogueIds -> Listings] :
        /\ catalogue = [id \in CatalogueIds |-> NoListing]
        /\ catalogue' = items
        /\ UNCHANGED <<search_results, search_done>>
        /\ UNCHANGED exceptRank

\* ... and an anonymous visitor searches for the query
RunSearch ==
    /\ ~search_done
    /\ catalogue # [id \in CatalogueIds |-> NoListing]
    /\ search_results' =
           ApplySorting(catalogue,
                        MlRanking(catalogue, InIdOrder(TextSearch(catalogue))),
                        DefaultSortBy)
    /\ search_done' = TRUE
    /\ UNCHANGED catalogue
    /\ UNCHANGED exceptRank

\* ------------------------------------------------------------------------
\* Gallery images: ItemImage.save, called by upload_item_image and item_create
\* ------------------------------------------------------------------------
MaxGallery == 3

MaxNewItems == 2

MaxOrder == 3

ImageIds == 1..MaxGallery

\* the logged-in user who uploads images and creates items
GalleryUser == "A"

\* item = None: uploaded and not attached yet
Unattached == 0

\* the order a request may carry; 0 is also what a request without one gets
GivenOrders == {0, 2}

NoImage == [item |-> Unattached, order |-> 0]

GalleryInit ==
    /\ gallery = [id \in ImageIds |-> NoImage]
    /\ items_created = 0
    /\ creating = 0
    /\ img_last = [view |-> "none", id |-> 0, given |-> 0]

Stored(rows) == {id \in ImageIds : rows[id] /= NoImage}

\* ItemImage.objects.filter(item=item).aggregate(Max('order')), None as 0
AggregateMax(rows, item) ==
    LET orders == {rows[id].order : id \in {i \in Stored(rows) : rows[i].item = item}}
    IN  IF orders = {} THEN 0
        ELSE CHOOSE o \in orders : \A p \in orders : p <= o

\* ItemImage.save: the order the row is written with
SavedOrderMut(rows, item, order) ==
    IF order = 0
    THEN Cardinality({i \in Stored(rows) : rows[i].item = item}) + 1
    ELSE order

SavedOrder(rows, item, order) ==
    IF order = 0
    THEN AggregateMax(rows, item) + 1
    ELSE order

\* upload_item_image: ItemImage.objects.create(item=None, ..., order=order)
UploadImage ==
    \E order \in GivenOrders :
        LET id == Cardinality(Stored(gallery)) + 1
            saved == SavedOrder(gallery, Unattached, order)
        IN  /\ id \in ImageIds
            /\ saved <= MaxOrder
            /\ gallery' = [gallery EXCEPT ![id] = [item |-> Unattached, order |-> saved]]
            /\ img_last' = [view |-> "upload_item_image", id |-> id, given |-> order]
            /\ UNCHANGED <<items_created, creating>>
            /\ UNCHANGED exceptGallery

\* item_create up to item.save()
ItemCreateBegin ==
    /\ creating = 0
    /\ items_created < MaxNewItems
    /\ items_created' = items_created + 1
    /\ creating' = items_created + 1
    /\ UNCHANGED <<gallery, img_last>>
    /\ UNCHANGED exceptGallery

\* item_create, one entry of images_data: an id that does not resolve is
\* skipped, otherwise the image is attached, given the entry's order and saved
AttachImage ==
    \E id \in ImageIds, order \in GivenOrders :
        LET saved == SavedOrder(gallery, creating, order)
        IN  /\ creating /= 0
            /\ IF id \notin Stored(gallery)
               THEN /\ img_last' = [view |-> "skipped", id |-> id, given |-> order]
                    /\ UNCHANGED gallery
               ELSE /\ saved <= MaxOrder
                    /\ gallery' = [gallery EXCEPT ![id] = [item |-> creating, order |-> saved]]
                    /\ img_last' = [view |-> "item_create", id |-> id, given |-> order]
            /\ UNCHANGED <<items_created, creating>>
            /\ UNCHANGED exceptGallery

\* the item_created LiveActivity of track_item_created
ItemCreatedActivity(item) ==
    [user |-> GalleryUser, activity_type |-> "item_created", object_id |-> item]

\* item_create after the images: track_item_created, whose LiveActivity row
\* is created before anything is broadcast, and the answer to the request
ItemCreateEnd ==
    /\ creating /= 0
    /\ creating' = 0
    /\ activities' = activities \cup {ItemCreatedActivity(creating)}
    /\ UNCHANGED <<gallery, items_created, img_last>>
    /\ UNCHANGED <<trades, notifications, outbox, inflight, channel_layer, last>>
    /\ UNCHANGED exceptGalleryTrade

\* ------------------------------------------------------------------------
\* check_rate_limit run by several workers: cache.get and cache.set are two
\* cache operations with nothing holding the key in between
\* ------------------------------------------------------------------------
RaceInit == rate_reading = EmptyBag

\* attempts.append(now): the list check_rate_limit stores
StoredAttemptsMut(attempts, t) == Append(CurrentAttempts("login"), t)

StoredAttempts(attempts, t) == Append(attempts, t)

\* check_rate_limit up to the limit check: a refused call ends here
RateRead ==
    LET cfg == RateLimits["login"]
        attempts == CurrentAttempts("login")
    IN  /\ BagCardinality(rate_reading) < NumWorkers
        /\ IF LimitReached(attempts, cfg)
           THEN /\ rate_last' = [allowed |-> FALSE,
                                 retry_after |-> RetryAfter(attempts, now, cfg),
                                 at |-> now]
                /\ UNCHANGED rate_reading
           ELSE /\ rate_reading' = rate_reading (+)
                                       SetToBag({[attempts |-> attempts, at |-> now]})
                /\ UNCHANGED rate_last
        /\ UNCHANGED <<now, rate_limit, granted, rapid_requests, suspicious_count,
                       blocked_ip, security_events, request_metadata, sec_last,
                       detected>>
        /\ UNCHANGED exceptRaceSec

\* check_rate_limit from attempts.append(now): the list is stored and the
\* call is allowed
RateWrite ==
    \E r \in BagToSet(rate_reading) :
        /\ rate_reading' = rate_reading (-) SetToBag({r})
        /\ rate_limit' = CacheSet(StoredAttempts(r.attempts, r.at),
                                  RateLimits["login"].window)
        /\ rate_last' = [allowed |-> TRUE, retry_after |-> 0, at |-> r.at]
        /\ granted' = Append(granted, r.at)
        /\ UNCHANGED <<now, rapid_requests, suspicious_count, blocked_ip,
                       security_events, request_metadata, sec_last, detected>>
        /\ UNCHANGED exceptRaceSec

\* ------------------------------------------------------------------------
\* CacheMiddleware: process_request, the view, process_response
\* ------------------------------------------------------------------------
CacheTimeout == 300

\* request.user: AnonymousUser or a logged-in user, with str(request.user.id)
CacheUsers == {Anonymous, "A"}
UserId == [A |-> "1"]

\* request.path, the second with a "|" in it, and request.GET.urlencode()
CachePaths == {"/api/items", "/api/items|q=1", "/items/"}
CacheQueries == {"", "q=1"}

\* any(request.path.startswith(path) for path in self.cacheable_paths)
Cacheable(path) == path \in {"/api/items", "/api/items|q=1"}

\* _generate_cache_key, without the md5 digest of the joined string
GenerateCacheKeyMut(path, query, user) == path \o "|" \o query

GenerateCacheKey(path, query, user) ==
    path \o "|" \o query \o "|" \o (IF user = Anonymous THEN "anonymous" ELSE UserId[user])

\* what the view answers: a page made for this user and this URL
ViewResponse(status, path, query, user) ==
    [status |-> status, path |-> path, query |-> query, made_for |-> user]

NoResponse == ViewResponse(0, "", "", Anonymous)

CacheInit ==
    /\ response_cache = [k \in {} |-> NoResponse]
    /\ cache_last = [method |-> "-", user |-> Anonymous, hit |-> FALSE,
                     response |-> NoResponse, path |-> "", query |-> ""]
    /\ cache_clock = 0

\* cache.get(cache_key): None for a missing or expired entry
CachedResponse(key) ==
    IF key \in DOMAIN response_cache /\ cache_clock < response_cache[key].exp
    THEN response_cache[key].val
    ELSE NoResponse

\* one request through the middleware; process_response also runs on the
\* response that process_request took from the cache
CacheRequest ==
    \E method \in {"GET", "POST"}, path \in CachePaths, query \in CacheQueries,
       user \in CacheUsers, status \in {200, 404} :
        LET key == GenerateCacheKey(path, query, user)
            looked_up == method = "GET" /\ Cacheable(path) /\ user = Anonymous
            hit == looked_up /\ CachedResponse(key) # NoResponse
            response == IF hit THEN CachedResponse(key)
                        ELSE ViewResponse(status, path, query, user)
            stored == method = "GET" /\ response.status = 200 /\ Cacheable(path)
        IN  /\ response_cache' =
                   IF stored
                   THEN [k \in DOMAIN response_cache \cup {key} |->
                            IF k = key
                            THEN [val |-> response, exp |-> cache_clock + CacheTimeout]
                            ELSE response_cache[k]]
                   ELSE response_cache
            /\ cache_last' = [method |-> method, user |-> user, hit |-> hit,
                              response |-> response, path |-> path, query |-> query]
            /\ UNCHANGED cache_clock
            /\ UNCHANGED exceptCache

\* the cache timeout passes, once; the cache drops the expired entries
CacheTick ==
    /\ cache_clock < CacheTimeout
    /\ cache_clock' = cache_clock + CacheTimeout
    /\ response_cache' = [k \in {j \in DOMAIN response_cache :
                                    cache_clock' < response_cache[j].exp} |->
                              response_cache[k]]
    /\ UNCHANGED cache_last
    /\ UNCHANGED exceptCache

\* ------------------------------------------------------------------------
\* The cached recommendation list of one user: update_user_interaction and
\* get_cached_recommendations, run by several workers
\* ------------------------------------------------------------------------
MaxInteractions == 2

\* a cached list, known by the number of interactions it was made from
CachedList(made_from) == [present |-> TRUE, made_from |-> made_from]
NoList == [present |-> FALSE, made_from |-> 0]

RecCacheInit ==
    /\ interactions = 0
    /\ rec_cache = NoList
    /\ rec_computing = EmptyBag
    /\ rec_resp = [from_cache |-> FALSE, made_from |-> 0, calls |-> 0]

\* update_user_interaction: the row is created and the entry deleted
UpdateUserInteraction ==
    /\ interactions < MaxInteractions
    /\ interactions' = interactions + 1
    /\ rec_cache' = NoList
    /\ UNCHANGED <<rec_computing, rec_resp>>
    /\ UNCHANGED exceptRecCache

\* get_cached_recommendations up to the list it will return: the cached
\* list, or on a miss the stored recommendations or a new batch, made from
\* the interactions recorded so far
GetCachedRead ==
    /\ BagCardinality(rec_computing) < NumWorkers
    /\ IF rec_cache.present
       THEN /\ rec_resp' = [from_cache |-> TRUE, made_from |-> rec_cache.made_from,
                            calls |-> (rec_resp.calls + 1) % 2]
            /\ UNCHANGED rec_computing
       ELSE /\ rec_computing' = rec_computing (+) SetToBag({interactions})
            /\ UNCHANGED rec_resp
    /\ UNCHANGED <<interactions, rec_cache>>
    /\ UNCHANGED exceptRecCache

\* get_cached_recommendations after a miss: cache.set and return
GetCachedStore ==
    \E made_from \in BagToSet(rec_computing) :
        /\ rec_computing' = rec_computing (-) SetToBag({made_from})
        /\ rec_cache' = CachedList(made_from)
        /\ rec_resp' = [from_cache |-> FALSE, made_from |-> made_from,
                        calls |-> (rec_resp.calls + 1) % 2]
        /\ UNCHANGED interactions
        /\ UNCHANGED exceptRecCache

\* the hour of the cache entry is over
RecCacheExpire ==
    /\ rec_cache.present
    /\ rec_cache' = NoList
    /\ UNCHANGED <<interactions, rec_computing, rec_resp>>
    /\ UNCHANGED exceptRecCache

\* ------------------------------------------------------------------------
\* Learned preferences: SmartMatchingEngine._learn_user_preferences
\* ------------------------------------------------------------------------
MaxLearned == 2

Categories == {"books", "games"}

\* _get_interaction_weight, in tenths
InteractionWeight ==
    [view |-> 1, favorite |-> 5, unfavorite |-> -3, trade_request |-> 8,
     trade_accept |-> 10, trade_reject |-> -2, swipe_right |-> 6,
     swipe_left |-> -1, message_send |-> 7]

InteractionTypes == DOMAIN InteractionWeight

LearnInit ==
    /\ recent_interactions = <<>>
    /\ category_weights = <<>>
    /\ learn_resp = "-"

\* category_scores after the loop: the categories met, each with the sum of
\* the weights of its interactions
RECURSIVE CategoryScores(_)
CategoryScores(rows) ==
    IF rows = <<>> THEN <<>>
    ELSE LET rest == CategoryScores(Tail(rows))
             category == Head(rows).category
             weight == InteractionWeight[Head(rows).interaction_type]
         IN  [c \in DOMAIN rest \cup {category} |->
                 (IF c \in DOMAIN rest THEN rest[c] ELSE 0)
                 + (IF c = category THEN weight ELSE 0)]

\* max(category_scores.values())
MaxScore(scores) ==
    CHOOSE m \in {scores[c] : c \in DOMAIN scores} :
        \A c \in DOMAIN scores : scores[c] <= m

\* category_scores[category] / max_score, kept as the fraction it is
Normalized(scores) ==
    [c \in DOMAIN scores |-> [score |-> scores[c], max_score |-> MaxScore(scores)]]

\* the interactions of the last 30 days, found in the database
RecordInteractions ==
    \E rows \in UNION {[1..n -> [category : Categories,
                                 interaction_type : InteractionTypes]] :
                          n \in 1..MaxLearned} :
        /\ recent_interactions = <<>>
        /\ learn_resp = "-"
        /\ recent_interactions' = rows
        /\ UNCHANGED <<category_weights, learn_resp>>
        /\ UNCHANGED exceptLearn

\* _learn_user_preferences with at least one interaction: the division
\* raises ZeroDivisionError when the maximum is 0, and nothing is stored
LearnUserPreferences ==
    LET scores == CategoryScores(recent_interactions)
    IN  /\ recent_interactions # <<>>
        /\ learn_resp = "-"
        /\ IF MaxScore(scores) = 0
           THEN /\ learn_resp' = "ZeroDivisionError"
                /\ UNCHANGED category_weights
           ELSE /\ learn_resp' = "stored"
                /\ category_weights' = Normalized(scores)
        /\ UNCHANGED recent_interactions
        /\ UNCHANGED exceptLearn

\* ------------------------------------------------------------------------
\* Online status: NotificationConsumer.connect, disconnect, set_user_online
\* ------------------------------------------------------------------------
MaxChannels == 2

\* the channel names of the connections a user may hold at a time
ChannelNames == 1..MaxChannels

NoStatus == [exists |-> FALSE, is_online |-> FALSE, channel_name |-> 0]

OnlineInit ==
    /\ open_channels = [u \in Users |-> {}]
    /\ online_status = [u \in Users |-> NoStatus]

\* set_user_online: get_or_create with the defaults, then the update of a
\* row that was there already
SetUserOnline(status, is_online, channel_name) ==
    IF ~status.exists
    THEN [exists |-> TRUE, is_online |-> is_online, channel_name |-> channel_name]
    ELSE [exists |-> TRUE, is_online |-> is_online,
          channel_name |-> IF is_online THEN channel_name ELSE 0]

\* NotificationConsumer.connect of a logged-in user (an anonymous client is
\* closed, and its disconnect does nothing)
NotifConnect ==
    \E user \in Users, channel_name \in ChannelNames :
        /\ channel_name \notin open_channels[user]
        /\ open_channels' = [open_channels EXCEPT ![user] = @ \cup {channel_name}]
        /\ online_status' = [online_status EXCEPT
                                ![user] = SetUserOnline(@, TRUE, channel_name)]
        /\ UNCHANGED exceptOnline

\* NotificationConsumer.disconnect of one connection
NotifDisconnect ==
    \E user \in Users : \E channel_name \in open_channels[user] :
        /\ open_channels' = [open_channels EXCEPT ![user] = @ \ {channel_name}]
        /\ online_status' = [online_status EXCEPT
                                ![user] = SetUserOnline(@, FALSE, channel_name)]
        /\ UNCHANGED exceptOnline

\* ------------------------------------------------------------------------
\* Recommendation strategies: track_interaction and
\* generate_recommendations_for_user.  The items are of one category and
\* were listed within the last week.
\* ------------------------------------------------------------------------
MaxTracked == 3

DefaultLimit == 10

\* the interaction types a client sends
TrackedTypes == {"favorite", "trade_request", "swipe_left"}

MatchInit ==
    /\ tracked = {}
    /\ match_recs = {}

\* track_interaction: any item that exists, any type, no look at the owner
TrackInteraction ==
    \E user \in Users, item \in Items, interaction_type \in TrackedTypes :
        /\ Cardinality(tracked) < MaxTracked
        /\ tracked' = tracked \cup
               {[user |-> user, item |-> item, interaction_type |-> interaction_type]}
        /\ UNCHANGED match_recs
        /\ UNCHANGED exceptMatch

\* the items a user has a row of one of the given types for
ItemsWith(user, types) ==
    {r.item : r \in {t \in tracked : t.user = user /\ t.interaction_type \in types}}

NotOwnedBy(user) == {i \in Items : ItemOwner[i] # user}

\* _generate_behavior_based_recommendations, every candidate taken as
\* scoring above the threshold
BehaviorBased(user) ==
    LET liked_items == ItemsWith(user, {"favorite", "swipe_right", "trade_request"})
    IN  IF liked_items = {} THEN {} ELSE NotOwnedBy(user) \ liked_items

\* _generate_category_based_recommendations for a user whose weight for the
\* category is above 0.3, or is not
CategoryBased(user, interested) == IF interested THEN NotOwnedBy(user) ELSE {}

\* _find_perfect_matches: the items of the users who showed interest in an
\* item of this user; a user owns one item at most, so the slice
\* their_items[:limit // len(interested_users)] holds it or nothing
PerfectMatches(user, limit) ==
    LET interested_users ==
            {r.user : r \in {t \in tracked :
                /\ ItemOwner[t.item] = user
                /\ t.interaction_type \in {"favorite", "swipe_right", "trade_request"}}}
        their_items(u) ==
            {i \in Items : ItemOwner[i] = u} \ ItemsWith(user, {"swipe_left"})
        mutual_interest(u) ==
            \E t \in tracked : /\ t.user = u
                               /\ ItemOwner[t.item] = user
                               /\ t.interaction_type \in {"favorite", "swipe_right"}
    IN  IF interested_users = {} THEN {}
        ELSE UNION {IF mutual_interest(u)
                       /\ limit \div Cardinality(interested_users) >= 1
                    THEN their_items(u) ELSE {} : u \in interested_users}

\* _generate_trending_recommendations: more than 2 interactions
Trending(user) ==
    {i \in NotOwnedBy(user) : Cardinality({t \in tracked : t.item = i}) > 2}

Recommend(user, items, type) ==
    {[user |-> user, item |-> i, recommendation_type |-> type] : i \in items}

\* generate_recommendations_for_user with the default limit; with these few
\* items _deduplicate_and_rank cuts nothing off
GenerateRecommendations ==
    \E user \in Users, interested \in BOOLEAN :
        /\ match_recs' =
               Recommend(user, BehaviorBased(user), "user_behavior")
               \cup Recommend(user, CategoryBased(user, interested), "category_match")
               \cup Recommend(user, PerfectMatches(user, DefaultLimit \div 4),
                              "perfect_match")
               \cup Recommend(user, Trending(user), "trending")
        /\ UNCHANGED tracked
        /\ UNCHANGED exceptMatch

AppInit == NotifInit /\ FavInit /\ SearchInit /\ SessInit /\ ChatInit /\ FeedInit /\ RecInit /\ RankInit /\ GalleryInit /\ RaceInit /\ CacheInit /\ RecCacheInit /\ LearnInit /\ OnlineInit /\ MatchInit

vars == <<tradeVars, secVars, appVars>>

\* the trade workflow behind a working channel layer
Init == TradeInit /\ SecInit /\ AppInit /\ channel_layer = "up"

Next ==
    \/ TradeCreateCheck
    \/ \E j \in BagToSet(inflight) : TradeCreateInsert(j)
    \/ TradeActionLoad
    \/ \E j \in BagToSet(inflight) : TradeActionSave(j)

\* requests served by a pool of workers, any interleaving of their steps
Spec == Init /\ [][Next]_vars

\* requests served one at a time: a request starts only when none is in
\* progress; the channel layer may be missing, and may fail and recover
AllIdle == inflight = EmptyBag

SeqInit == TradeInit /\ SecInit /\ AppInit /\ channel_layer \in {"up", "none"}

SeqNext ==
    \/ AllIdle /\ TradeCreateCheck
    \/ \E j \in BagToSet(inflight) : TradeCreateInsert(j)
    \/ AllIdle /\ TradeActionLoad
    \/ \E j \in BagToSet(inflight) : TradeActionSave(j)
    \/ ChannelOutage
    \/ ChannelRestore

SeqSpec == SeqInit /\ [][SeqNext]_vars

\* check_rate_limit called again and again as time passes
RateNext == RateCheck \/ RateTick

RateSpec == Init /\ [][RateNext]_vars

\* requests of one client through SecurityMiddleware, one at a time
SecNext == ProcessRequest \/ SecTick

SecSpec == Init /\ [][SecNext]_vars

NotifNext ==
    \/ MarkReadLoad
    \/ MarkReadNotFound
    \/ \E j \in BagToSet(marking) : MarkReadSave(j)
    \/ MarkAllRead
    \/ ClockTick

\* mark-read requests of several connections and tabs, in any interleaving
NotifSpec == Init /\ [][NotifNext]_vars

FavNext ==
    \/ ToggleFavorite
    \/ ChannelOutage
    \/ ChannelRestore

\* toggle_favorite requests one after another
FavSpec == Init /\ [][FavNext]_vars

SearchNext == Search

\* searches one after another
SearchSpec == Init /\ [][SearchNext]_vars

SessNext ==
    \/ SessionLogin
    \/ SessionRequest
    \/ SecTick

\* the requests of one session as time passes
SessSpec == Init /\ [][SessNext]_vars

ChatNext ==
    \/ ChatConnect
    \/ ChatDisconnect
    \/ TradeDetailPost
    \/ ChatReceive

\* websocket clients connecting to and leaving trade chats
ChatSpec == Init /\ [][ChatNext]_vars

FeedNext ==
    \/ CreateActivity
    \/ AdminSetPublic
    \/ SendRecentActivities
    \/ LiveActivityFeed
    \/ ChannelOutage
    \/ ChannelRestore

\* activities being created, re-flagged and listed
FeedSpec == Init /\ [][FeedNext]_vars

RecNext ==
    \/ GenerateCandidates
    \/ RankCandidates

\* recommendation batches being generated and ranked
RecSpec == Init /\ [][RecNext]_vars

RankNext ==
    \/ ListItems
    \/ RunSearch

\* a catalogue being listed and searched
RankSpec == Init /\ [][RankNext]_vars

GalleryNext ==
    \/ UploadImage
    \/ ItemCreateBegin
    \/ AttachImage
    \/ ItemCreateEnd

\* gallery images being uploaded and attached to new items
GallerySpec == Init /\ [][GalleryNext]_vars

\* the attempt window that starts with the first check passes
RaceTick ==
    /\ now < LoginWindow
    /\ Tick(LoginWindow)

RaceNext ==
    \/ RateRead
    \/ RateWrite
    \/ RaceTick

\* login checks made by several workers at once
RaceSpec == Init /\ [][RaceNext]_vars

CacheNext ==
    \/ CacheRequest
    \/ CacheTick

\* requests of anonymous and logged-in clients through CacheMiddleware
CacheSpec == Init /\ [][CacheNext]_vars

RecCacheNext ==
    \/ UpdateUserInteraction
    \/ GetCachedRead
    \/ GetCachedStore
    \/ RecCacheExpire

\* a user's interactions and recommendation requests, served by several workers
RecCacheSpec == Init /\ [][RecCacheNext]_vars

LearnNext ==
    \/ RecordInteractions
    \/ LearnUserPreferences

\* preferences being learned from a user's recent interactions
LearnSpec == Init /\ [][LearnNext]_vars

OnlineNext ==
    \/ NotifConnect
    \/ NotifDisconnect

\* users opening and closing notification websocket connections
OnlineSpec == Init /\ [][OnlineNext]_vars

MatchNext ==
    \/ TrackInteraction
    \/ GenerateRecommendations

\* interactions being tracked and recommendations generated
MatchSpec == Init /\ [][MatchNext]_vars

\* ------------------------------------------------------------------------
\* Properties of the trade workflow
\* ------------------------------------------------------------------------
\* the request j ends in this step
Ends(j) == BagIn(j, inflight) /\ inflight' = inflight (-) SetToBag({j})

\* the combinations of actor, action and stored status the trade lifecycle
\* allows, with the status each gives
Allowed(user, action, t, new) ==
    /\ t.status = PENDING
    /\ \/ action = "accept" /\ user = t.responder /\ new = ACCEPTED
       \/ action = "reject" /\ user = t.responder /\ new = REJECTED
       \/ action = "cancel" /\ user = t.requester /\ new = CANCELLED

\* C1: with requests served one at a time, a stored status changes only by
\* an accept or reject of the responder or a cancel of the requester on a
\* pending trade, to accepted / rejected / cancelled; a request of any
\* other combination never gets to the write, so it leaves every status as
\* it is.
C1_OnlyAllowedTransitions ==
    [][ /\ Len(trades') >= Len(trades)
        /\ \A k \in 1..Len(trades) :
              trades'[k].status # trades[k].status =>
                 \E j \in BagToSet(inflight) :
                    /\ j.kind = "trade_action" /\ j.pk = k /\ Ends(j)
                    /\ Allowed(j.user, j.action, trades[k], trades'[k].status)
        /\ \A j \in BagToSet(inflight') :
              j.kind = "trade_action" =>
                 \E new \in TradeStatus : Allowed(j.user, j.action, trades'[j.pk], new)
      ]_vars

\* a request on the only trade, which is pending, was refused: since the
\* trade is pending, it came from the wrong actor or named no known action
C1_Witness ==
    /\ Len(trades) = 1
    /\ trades[1].status = PENDING
    /\ last = [kind |-> "trade_action", resp |-> "denied"]

\* C2: once a stored status is accepted, rejected or cancelled no step
\* changes it, in any interleaving of requests.
C2_TerminalImmutable ==
    [][ \A k \in 1..Len(trades) :
           trades[k].status # PENDING => trades'[k].status = trades[k].status ]_vars

PendingLike(row) ==
    {k \in 1..Len(trades) : trades[k].status = PENDING /\ SameTuple(trades[k], row)}

\* C3: no two pending trades share their (requester, responder,
\* offered_item, requested_item).
C3_UniquePending ==
    \A k \in 1..Len(trades) : Cardinality(PendingLike(trades[k])) <= 1

\* a creation that raced with an identical one found the tuple taken at its
\* insert and created no row
C3_Witness ==
    /\ last = [kind |-> "trade_create", resp |-> "500"]
    /\ Len(trades) = 1
    /\ trades[1].status = PENDING

\* C4: a creation whose tuple has a pending trade when it comes to its
\* insert is answered by the redirect to that trade, not by an error.
C4_DuplicateIsRedirected ==
    [][ \A j \in BagToSet(inflight) :
           (j.kind = "trade_create" /\ Ends(j) /\ ExistingPending(trades, JobRow(j)) # 0)
              => last'.resp = "redirect_existing" ]_vars

\* C5: no trade row, and no creation past the checks of the view, has its
\* requester as responder or one item on both sides.
C5_NoSelfDealing ==
    /\ \A k \in 1..Len(trades) :
          /\ trades[k].requester # trades[k].responder
          /\ trades[k].offered_item # trades[k].requested_item
    /\ \A j \in BagToSet(inflight) :
          j.kind = "trade_create" =>
             j.user # ItemOwner[j.requested] /\ j.offered # j.requested

\* a request for one's own item was turned away while a trade exists
C5_Witness ==
    /\ last = [kind |-> "trade_create", resp |-> "own_item"]
    /\ Len(trades) = 1

\* C6: every trade row, and every creation past the form, offers an item of
\* its requester and asks for an item of its responder.
C6_OfferedIsOwned ==
    /\ \A k \in 1..Len(trades) :
          /\ ItemOwner[trades[k].offered_item] = trades[k].requester
          /\ ItemOwner[trades[k].requested_item] = trades[k].responder
    /\ \A j \in BagToSet(inflight) :
          j.kind = "trade_create" => ItemOwner[j.offered] = j.user

\* a trade has been created and a later submission was sent back to the form
C6_Witness ==
    /\ last = [kind |-> "trade_create", resp |-> "form"]
    /\ Len(trades) = 2

\* C7: when an accept of the responder on a pending trade ends, the trade
\* is accepted, the requester has a trade_accepted notification for it, a
\* trade_completed activity exists for it and a status-update e-mail to the
\* requester was attempted.
C7_AcceptEffects ==
    [][ \A j \in BagToSet(inflight) :
           ( /\ j.kind = "trade_action" /\ j.action = "accept" /\ Ends(j)
             /\ trades[j.pk].status = PENDING /\ j.user = trades[j.pk].responder )
           => LET t == trades'[j.pk]
              IN  /\ t.status = ACCEPTED
                  /\ \E n \in notifications' :
                        /\ n.notification_type = "trade_accepted"
                        /\ n.recipient = t.requester /\ n.object_id = j.pk
                  /\ \E a \in activities' :
                        a.activity_type = "trade_completed" /\ a.object_id = j.pk
                  /\ \E e \in outbox' :
                        /\ e.template = "trade_status_update"
                        /\ e.to = t.requester /\ e.trade = j.pk ]_vars

\* C8: when an accept or reject ends while real-time delivery does not
\* work, the request still succeeds, with its status written and its
\* notification row stored.
C8_DeliveryFailureIsolated ==
    [][ \A j \in BagToSet(inflight) :
           ( /\ j.kind = "trade_action" /\ j.action \in {"accept", "reject"} /\ Ends(j)
             /\ channel_layer # "up" )
           => /\ last'.resp = "updated"
              /\ trades'[j.pk].status = NewStatus(j.action)
              /\ \E n \in notifications' : n.object_id = j.pk /\ ~ n.is_sent ]_vars

\* ------------------------------------------------------------------------
\* Properties of the security layer
\* ------------------------------------------------------------------------
\* C9: with login checks made one at a time, a check is allowed exactly when
\* fewer than 5 checks were allowed in the last 300 seconds (so the first 5
\* inside a window pass, the 6th does not, and after 300 seconds without an
\* attempt a check passes again), and a rejected check comes with a
\* retry-after value greater than 0 and at most 300.
C9_RateLimitWindow ==
    [][rate_last' # rate_last =>
         /\ rate_last'.allowed <=> Len(granted) < 5
         /\ ~rate_last'.allowed =>
                /\ rate_last'.retry_after > 0
                /\ rate_last'.retry_after <= 300]_vars

\* the sixth check of a window has been rejected, 200 seconds after the first
C9_Witness ==
    /\ ~rate_last.allowed
    /\ rate_last.retry_after = 100
    /\ Len(granted) = 5

\* the block the fourth detection of a run stands for
BlockExpected(d, t) == d.streak >= 4 /\ t < d.last + 3600

\* C10: the fourth suspicious detection of a run (each less than 3600
\* seconds after the one before) is answered 403 and blocks the address for
\* 3600 seconds, and while that hour lasts the address stays blocked and
\* every request is answered 403 at the block check.
C10_FourDetectionsBlock ==
    [][/\ (detected' # detected /\ detected'.streak >= 4) =>
              /\ sec_last' = Answer(403, "suspicious")
              /\ blocked_ip' = [val |-> TRUE, exp |-> now + 3600]
       /\ BlockExpected(detected', now') => CacheGet(blocked_ip, FALSE)'
       /\ (BlockExpected(detected, now) /\ now' = now) =>
              sec_last' = Answer(403, "block")]_vars

\* half an hour into a block a request has been turned away at the block
\* check
C10_Witness ==
    /\ detected.streak = 4
    /\ now = detected.last + 1800
    /\ sec_last = Answer(403, "block")
    /\ IsIpBlocked

\* C11: a request made while the blocked_ip entry of the address is alive is
\* answered 403 at the block check and leaves the rate-limit attempts, the
\* rapid-request list, the suspicious counter, the security event log and
\* the request-metadata log as they were.
C11_BlockedRequestFrame ==
    [][(blocked_ip.val /\ now < blocked_ip.exp /\ now' = now) =>
          /\ sec_last' = Answer(403, "block")
          /\ UNCHANGED <<rate_limit, rapid_requests, suspicious_count,
                         security_events, request_metadata>>]_vars

\* a blocked request has been turned away while the address still has
\* rate-limit attempts, recent requests and metadata in the cache
C11_Witness ==
    /\ blocked_ip.val /\ now < blocked_ip.exp
    /\ sec_last = Answer(403, "block")
    /\ rate_limit.val # <<>>
    /\ rapid_requests.val # <<>>
    /\ request_metadata.val # {}
    /\ suspicious_count.val = 4

\* ------------------------------------------------------------------------
\* Properties of the notification read state
\* ------------------------------------------------------------------------
\* C12: a mark-read operation that changes an unread notification sets
\* is_read and stamps read_at with the current time, and a read_at that is
\* set is never changed afterwards.
C12_ReadAtSetOnce ==
    [][\A n \in NotifIds :
          /\ (~inbox[n].is_read /\ inbox'[n] # inbox[n]) =>
                (inbox'[n].is_read /\ inbox'[n].read_at = clock)
          /\ inbox[n].read_at # 0 => inbox'[n].read_at = inbox[n].read_at]_vars

\* C23: a mark-notification-read request of user U changes is_read and
\* read_at of no notification other than the one it names, and of that one
\* only if U is its recipient; a request that names a notification of
\* somebody else, or one that does not exist, changes no notification.
C23_OnlyOwnNotification ==
    [][/\ read_resp'.status = "404" /\ read_resp' # read_resp => inbox' = inbox
       /\ BagCardinality(marking') < BagCardinality(marking) =>
              \A n \in NotifIds :
                  inbox'[n] # inbox[n] =>
                      /\ read_resp'.id = n
                      /\ inbox[n].recipient = read_resp'.user
                      /\ \E j \in BagToSet(marking) :
                             j.id = n /\ j.user = read_resp'.user]_vars

\* A has marked notification 1 read, then B's request to mark A's
\* notification 2 was not found, and notification 2 is still unread
C23_Witness ==
    /\ read_resp = ReadResp("404", "B", 2)
    /\ inbox[1].is_read
    /\ ~inbox[2].is_read
    /\ marking = EmptyBag

\* ------------------------------------------------------------------------
\* Properties of favorites
\* ------------------------------------------------------------------------
\* C13: for a user and an item of somebody else, starting without a
\* Favorite row, the number of rows of the pair after n toggle_favorite
\* calls is 1 when n is odd and 0 when n is even; it is never more than one.
C13_ToggleParity ==
    \A user \in FavUsers, item \in Items :
        ItemOwner[item] # user =>
            CopiesIn(FavRow(user, item), favorites) = toggled[<<user, item>>] % 2

\* B has toggled A's item three times and has it as a favorite, A has
\* toggled B's item twice and has not
C13_Witness ==
    /\ toggled[<<"B", "I1">>] = 3
    /\ CopiesIn(FavRow("B", "I1"), favorites) = 1
    /\ toggled[<<"A", "I2">>] = 2
    /\ CopiesIn(FavRow("A", "I2"), favorites) = 0

\* ------------------------------------------------------------------------
\* Properties of the search history
\* ------------------------------------------------------------------------
\* the creation times of the last k searches recorded for a user
MostRecent(u, k) == (searched[u] - k + 1) .. searched[u]

\* C14: after every recorded search each user has at most 100 SearchHistory
\* rows, and they are exactly the most recently created ones of that user
\* (as many as were recorded, up to 100); what one user records removes
\* nothing of another user.
C14_HistoryCapped ==
    \A u \in SearchUsers :
        LET mine == search_history[u]
            kept == IF searched[u] < 100 THEN searched[u] ELSE 100
        IN  /\ Len(mine) <= 100
            /\ Len(mine) = kept
            /\ {mine[i] : i \in 1..Len(mine)} = MostRecent(u, kept)

\* A has searched 105 times and has 100 rows left, the 5 oldest are gone;
\* B has searched 3 times and has 3 rows
C14_Witness ==
    /\ searched["A"] = 105
    /\ Len(search_history["A"]) = 100
    /\ Head(search_history["A"]) = 6
    /\ searched["B"] = 3
    /\ Len(search_history["B"]) = 3

\* ------------------------------------------------------------------------
\* Properties of the session screening
\* ------------------------------------------------------------------------
\* C15: a request of a logged-in session is let through exactly when the
\* session's last activity, if there is one, is at most 3600 seconds old and
\* the address stored in the session, if there is one, is the request's
\* address; every other request of the session is answered 401 and leaves
\* the session flushed.
C15_SessionScreening ==
    [][(sess_last' # sess_last /\ session.auth) =>
          LET fresh == session.last_activity = 0
                          \/ now - session.last_activity <= 3600
              same == session.ip_address = ""
                          \/ session.ip_address = sess_last'.ip
          IN  /\ sess_last'.status = 200 <=> (fresh /\ same)
              /\ sess_last'.status # 200 =>
                    (sess_last'.status = 401 /\ session' = EmptySession)]_vars

\* a request from another address has been answered 401 and the session is
\* gone
C15_Witness ==
    /\ sess_last.status = 401
    /\ sess_last.reason = "hijacking"
    /\ session = EmptySession
    /\ "session_hijacking_attempt" \in security_events

\* ------------------------------------------------------------------------
\* Properties of the chat
\* ------------------------------------------------------------------------
\* C16: every connection in the group chat_trade_<id> belongs to a logged-in
\* user who is the requester or the responder of trade id, and a connection
\* attempt that was closed in connect is not a member of the group, now or
\* at any time before.
C16_ChatGroupMembers ==
    \A id \in UrlTradeIds :
        /\ \A c \in chat_groups[id] :
              /\ c.user # Anonymous
              /\ id \in ChatTradeIds
              /\ c.user \in {ChatTrade.requester, ChatTrade.responder}
        /\ \A c \in chat_refused :
              /\ c \notin chat_groups[c.trade_id]
              /\ GroupEvent(c.trade_id, "user_joined", c.user) \notin chat_events

\* both parties are in the chat of trade 1 while C and an anonymous client
\* have been turned away, as has A for a trade that does not exist
C16_Witness ==
    /\ chat_groups[1] = {Connection("A", 1), Connection("B", 1)}
    /\ Connection("C", 1) \in chat_refused
    /\ Connection(Anonymous, 1) \in chat_refused
    /\ Connection("A", 2) \in chat_refused

\* C22: every Message row, whether trade_detail or the chat consumer made
\* it, belongs to an existing trade and has that trade's requester or
\* responder as its sender.
C22_SenderIsParty ==
    \A m \in chat_messages :
        /\ m.trade \in ChatTradeIds
        /\ m.sender \in {ChatTrade.requester, ChatTrade.responder}

\* both parties have written in both ways, and C's post to trade_detail
\* was turned away after C's chat connection had been
C22_Witness ==
    /\ chat_messages = {MessageRow(1, u, via) :
                            u \in {"A", "B"}, via \in {"trade_detail", "chat"}}
    /\ Connection("C", 1) \in chat_refused
    /\ msg_resp = "no_access"

\* C28: a connection that was closed in connect sends nothing to the group
\* of its trade, not even user_left when its disconnect runs.
C28_RefusedIsSilent ==
    \A c \in chat_refused :
        \A type \in {"user_joined", "user_left", "chat_message"} :
            GroupEvent(c.trade_id, type, c.user) \notin chat_events

\* ------------------------------------------------------------------------
\* Properties of the live activity feed
\* ------------------------------------------------------------------------
\* C17: an activity is sent to the group live_activities only when it is
\* created, and only if it is created public; and a list of activities
\* handed to a connecting client or shown on the feed page holds only
\* activities whose is_public flag is true at that time.
C17_PrivateActivityHidden ==
    [][/\ \A id \in broadcasted' \ broadcasted :
              /\ id \notin DOMAIN live_rows
              /\ live_rows'[id]
       /\ listing' # listing =>
              \A id \in listing'.ids : live_rows[id]]_vars

\* activity 1 was created private and never sent, activity 2 was sent, and
\* the feed page has just listed activity 2 only
C17_Witness ==
    /\ Len(live_rows) = 2
    /\ ~live_rows[1] /\ live_rows[2]
    /\ broadcasted = {2}
    /\ listing.kind = "feed" /\ listing.ids = {2}

\* ------------------------------------------------------------------------
\* Properties of the recommendation ranking
\* ------------------------------------------------------------------------
\* the highest score any candidate gives an item
BestScoreOf(item) ==
    LET scores == {rec_candidates[i].score :
                     i \in {k \in 1..Len(rec_candidates) : rec_candidates[k].item = item}}
    IN  CHOOSE s \in scores : \A t \in scores : t <= s

CandidateItems == {rec_candidates[i].item : i \in 1..Len(rec_candidates)}

\* C18: the result of _deduplicate_and_rank holds no item twice, gives every
\* item it holds the highest score any candidate gave that item, is in
\* descending order of score, has min(limit, number of distinct candidate
\* items) entries, and leaves out only items that score no higher than the
\* ones it holds.
C18_DeduplicateAndRank ==
    rec_done =>
        LET out == rec_result
            shown == {out[i].item : i \in 1..Len(out)}
            distinct == Cardinality(CandidateItems)
        IN  /\ \A i, j \in 1..Len(out) : out[i].item = out[j].item => i = j
            /\ shown \subseteq CandidateItems
            /\ \A i \in 1..Len(out) : out[i].score = BestScoreOf(out[i].item)
            /\ \A i, j \in 1..Len(out) : i < j => out[i].score >= out[j].score
            /\ Len(out) = IF rec_limit < distinct THEN rec_limit ELSE distinct
            /\ \A item \in CandidateItems \ shown :
                  \A i \in 1..Len(out) : BestScoreOf(item) <= out[i].score

\* item 1 proposed with 70 and with 85, item 2 with 70, limit 2: item 1
\* comes out once, first, with 85
C18_Witness ==
    /\ rec_done
    /\ rec_candidates = <<[item |-> 1, score |-> 70], [item |-> 2, score |-> 70],
                          [item |-> 1, score |-> 85]>>
    /\ rec_limit = 2
    /\ rec_result = <<[item |-> 1, score |-> 85], [item |-> 2, score |-> 70]>>

OtherOrders(rows, item, id) ==
    {rows[i].order : i \in {j \in ImageIds \ {id} : rows[j] /= NoImage /\ rows[j].item = item}}

\* C20: a save that changes an ItemImage row writes, when the image came
\* with order 0, one more than the largest order among the rows the item
\* had before the save (1 when it had none), and otherwise the order the
\* image came with.
C20_AppendOrder ==
    [][\A id \in ImageIds :
          gallery'[id] /= gallery[id] =>
              LET before == {gallery[i].order :
                                i \in {j \in ImageIds : /\ gallery[j] /= NoImage
                                                        /\ gallery[j].item = gallery'[id].item}}
              IN  /\ img_last'.id = id
                  /\ IF img_last'.given = 0
                     THEN /\ \A o \in before : o < gallery'[id].order
                          /\ \/ gallery'[id].order - 1 \in before
                             \/ before = {} /\ gallery'[id].order = 1
                     ELSE gallery'[id].order = img_last'.given]_vars

\* an image that came with order 0 was attached to an item whose other
\* images are at orders 1 and 2, and stands at order 3
C20_Witness ==
    /\ img_last.view = "item_create"
    /\ img_last.given = 0
    /\ gallery[img_last.id].item /= Unattached
    /\ gallery[img_last.id].order = 3
    /\ OtherOrders(gallery, gallery[img_last.id].item, img_last.id) = {1, 2}

\* C21: check_rate_limit reads the attempt list and stores it in two steps:
\* a call that stores was allowed on a list of fewer than 5 attempts, and
\* what it stores is the list it read plus its own time, whatever another
\* call has stored since, so that the other call's time is lost.
C21_ReadModifyWrite ==
    [][BagCardinality(rate_reading') < BagCardinality(rate_reading) =>
          \E r \in BagToSet(rate_reading) :
              /\ rate_reading' = rate_reading (-) SetToBag({r})
              /\ Len(r.attempts) < LoginCount
              /\ rate_last'.allowed
              /\ rate_limit'.val = Append(r.attempts, r.at)]_vars

\* more checks have been allowed in the last 300 seconds than the limit,
\* and the stored list holds fewer times than were allowed
C21_Witness ==
    /\ Len(granted) > LoginCount
    /\ Len(CacheGet(rate_limit, <<>>)) < Len(granted)
    /\ rate_reading = EmptyBag

\* C29: an ItemImage that is attached to an item stays attached to that
\* item; no item_create request moves it to another item.
C29_AttachedStaysAttached ==
    [][\A id \in ImageIds :
          (gallery[id] /= NoImage /\ gallery[id].item /= Unattached) =>
              gallery'[id].item = gallery[id].item]_vars

\* ------------------------------------------------------------------------
\* Properties of CacheMiddleware
\* ------------------------------------------------------------------------
\* C24: a response taken from the cache goes only to an anonymous GET request
\* on a cacheable prefix, and was made for the same path and query string;
\* and no request gets a response that was made for another user, in
\* particular no anonymous request one made for a logged-in user.
C24_CacheServesAnonymousOnly ==
    /\ cache_last.hit =>
          /\ cache_last.method = "GET"
          /\ cache_last.user = Anonymous
          /\ Cacheable(cache_last.path)
          /\ cache_last.response.path = cache_last.path
          /\ cache_last.response.query = cache_last.query
    /\ cache_last.method # "-" => cache_last.response.made_for = cache_last.user

\* an anonymous request was answered from the cache while the cache also
\* holds, unexpired, a page made for A at the same path and query string
C24_Witness ==
    /\ cache_last.hit
    /\ LET k == GenerateCacheKey(cache_last.path, cache_last.query, "A")
       IN  /\ k \in DOMAIN response_cache
           /\ cache_clock < response_cache[k].exp
           /\ response_cache[k].val.made_for = "A"

\* ------------------------------------------------------------------------
\* Properties of the cached recommendation list
\* ------------------------------------------------------------------------
\* C25: a get_cached_recommendations call that answers from the cache
\* returns a list made from all the interactions recorded by then: once
\* update_user_interaction has recorded an interaction, no later call
\* returns from the cache a list that was made before it.
C25_InteractionInvalidates ==
    [][(rec_resp' # rec_resp /\ rec_resp'.from_cache) =>
          rec_resp'.made_from = interactions]_vars

\* ------------------------------------------------------------------------
\* Properties of the learned preferences
\* ------------------------------------------------------------------------
\* C26: _learn_user_preferences, run on at least one recent interaction,
\* ends without an error and stores weights score / max_score of which the
\* largest is exactly 1 and none is above 1 (below a negative maximum the
\* quotient is above 1, hence the second comparison).
C26_TopCategoryIsOne ==
    learn_resp # "-" =>
        /\ learn_resp = "stored"
        /\ \E c \in DOMAIN category_weights :
              category_weights[c].score = category_weights[c].max_score
        /\ \A c \in DOMAIN category_weights :
              LET w == category_weights[c]
              IN  IF w.max_score > 0 THEN w.score <= w.max_score
                  ELSE w.score >= w.max_score

\* ------------------------------------------------------------------------
\* Properties of the online status
\* ------------------------------------------------------------------------
\* C27: a user with at least one open, accepted notification connection has
\* a UserOnlineStatus row with is_online true, also after one of several
\* connections of the user has been closed.
C27_OnlineWhileConnected ==
    \A u \in Users :
        open_channels[u] # {} =>
            online_status[u].exists /\ online_status[u].is_online

\* ------------------------------------------------------------------------
\* Properties of the recommendation strategies
\* ------------------------------------------------------------------------
\* C30: no recommendation made by generate_recommendations_for_user offers
\* a user an item the user owns, whatever interactions have been tracked.
C30_NoOwnItemRecommended ==
    \A r \in match_recs : ItemOwner[r.item] # r.user

====
